---- MODULE Spec2Model ----
(***************************************************************************)
(* A model of beamspy/annotation.py: the tolerance arithmetic, the library *)
(* normaliser, the pairwise / graph matchers, the reference range stores,  *)
(* the annotation orchestrators and the summary aggregator.                *)
(*                                                                         *)
(* Numbers.  The source computes in binary floating point.  The model      *)
(* computes the same expressions exactly: an m/z value or a mass is an     *)
(* integer count of 1e-5 Da, and a tolerance bound, which needs six more   *)
(* decimal places (mass * 0.000001 * ppm), is a fixed-point pair <<u, f>>  *)
(* standing for u + f / PpmDen with 0 <= f < PpmDen.  ppm is a natural     *)
(* number.  Rounding error of the floating point unit is not modelled.     *)
(***************************************************************************)
EXTENDS Integers, Sequences, FiniteSets, TLC

VARIABLES
    peaklist,   \* the flat peak table of the run: a sequence of [name, mz, intensity]
    edges,      \* the relationship graph of the run: a sequence of directed edges <<a, b>> over peak names
    lib,        \* the library handed to the call under study
    refs,       \* the reference entries loaded into the in-memory range store
    arg,        \* the scalar arguments of the call under study (m/z values, ppm, a range)
    db,         \* the destination store: table name -> [present, rows]
    ret         \* what the last call did: its name and its outcome

vars == <<peaklist, edges, lib, refs, arg, db, ret>>

\* 0.000001 of calculate_mz_tolerance and calculate_ppm_error, as a denominator
PpmDen == 1000000

(***************************************************************************)
(* Fixed-point arithmetic on <<u, f>> = u + f / PpmDen                      *)
(***************************************************************************)
FxNorm(u, f) == <<u + (f \div PpmDen), f % PpmDen>>

FxSubInt(x, k) == <<x[1] - k, x[2]>>

FxMulInt(x, c) == FxNorm(x[1] * c, x[2] * c)

FxLess(x, y) == x[1] < y[1] \/ (x[1] = y[1] /\ x[2] < y[2])

FxLeq(x, y) == x[1] < y[1] \/ (x[1] = y[1] /\ x[2] <= y[2])

(***************************************************************************)
(* Tolerance arithmetic                                                    *)
(***************************************************************************)
\* a window that opens upwards only
calculate_mz_tolerance_one_sided(mass, ppm) ==
    <<FxNorm(mass, 0), FxNorm(mass, mass * ppm)>>

\* calculate_mz_tolerance(mass, ppm) -> <<min_tol, max_tol>>
calculate_mz_tolerance(mass, ppm) ==
    <<FxNorm(mass, 0 - (mass * ppm)), FxNorm(mass, mass * ppm)>>

(***************************************************************************)
(* Library pairs.  A comparison pair is a record                           *)
(*   kind = "mass": two labelled {mass, charge} entries (adducts,          *)
(*                  multiple charged ions), as _prep_lib builds them;      *)
(*   kind = "diff": an isotope entry carrying mass_difference and the two  *)
(*                  labels' abundances;                                    *)
(*   kind = "bad" : an ordered entry with neither shape.                   *)
(***************************************************************************)
MassPair(la, ma, ca, lb, mb, cb) ==
    [kind |-> "mass", label_a |-> la, label_b |-> lb, mass_a |-> ma, charge_a |-> ca,
     mass_b |-> mb, charge_b |-> cb, mass_difference |-> 0, abundance_a |-> 0, abundance_b |-> 0]

DiffPair(la, aa, lb, ab, d) ==
    [kind |-> "diff", label_a |-> la, label_b |-> lb, mass_a |-> 0, charge_a |-> 1,
     mass_b |-> 0, charge_b |-> 1, mass_difference |-> d, abundance_a |-> aa, abundance_b |-> ab]

BadPair(la, lb) ==
    [kind |-> "bad", label_a |-> la, label_b |-> lb, mass_a |-> 0, charge_a |-> 1,
     mass_b |-> 0, charge_b |-> 1, mass_difference |-> 0, abundance_a |-> 0, abundance_b |-> 0]

\* the two windows without the shift by the library masses
ToleranceWindowsUnshifted(mz_x, mz_y, lib_pair, ppm) ==
    LET a == calculate_mz_tolerance(mz_x, ppm)
        b == calculate_mz_tolerance(mz_y, ppm)
    IN  [min_tol_a |-> a[1], max_tol_a |-> a[2], min_tol_b |-> b[1], max_tol_b |-> b[2]]

\* _check_tolerance, lines 89-101: the two windows after the shift and the charge correction
ToleranceWindows(mz_x, mz_y, lib_pair, ppm) ==
    LET a == calculate_mz_tolerance(mz_x, ppm)
        b == calculate_mz_tolerance(mz_y, ppm)
    IN  IF lib_pair.kind = "diff"
        THEN [min_tol_a |-> a[1], max_tol_a |-> a[2],
              min_tol_b |-> FxSubInt(b[1], lib_pair.mass_difference),
              max_tol_b |-> FxSubInt(b[2], lib_pair.mass_difference)]
        ELSE [min_tol_a |-> FxMulInt(FxSubInt(a[1], lib_pair.mass_a), lib_pair.charge_a),
              max_tol_a |-> FxMulInt(FxSubInt(a[2], lib_pair.mass_a), lib_pair.charge_a),
              min_tol_b |-> FxMulInt(FxSubInt(b[1], lib_pair.mass_b), lib_pair.charge_b),
              max_tol_b |-> FxMulInt(FxSubInt(b[2], lib_pair.mass_b), lib_pair.charge_b)]

\* the comparison of line 111 with both inequalities non-strict (the law in the comment of line 109)
OverlapClosed(w) ==
    IF FxLeq(w.min_tol_a, w.max_tol_b) /\ FxLeq(w.min_tol_b, w.max_tol_a) THEN 1 ELSE 0

\* _check_tolerance, lines 111-114
Overlap(w) ==
    IF FxLess(w.min_tol_a, w.max_tol_b) /\ FxLess(w.min_tol_b, w.max_tol_a) THEN 1 ELSE 0

\* _check_tolerance(mz_x, mz_y, lib_pair, ppm): 1, 0, or ValueError for an entry of neither shape
check_tolerance(mz_x, mz_y, lib_pair, ppm) ==
    IF lib_pair.kind = "bad"
    THEN [raised |-> "ValueError", value |-> 0]
    ELSE [raised |-> "none", value |-> Overlap(ToleranceWindows(mz_x, mz_y, lib_pair, ppm))]

(***************************************************************************)
(* Quotients.  A quotient num / den is rounded to k decimal places by long  *)
(* division, one decimal digit at a time, ties to the even neighbour (what   *)
(* round() does to the exact quotient).  The result is the integer count of  *)
(* 10^-k units.                                                             *)
(***************************************************************************)
Abs(x) == IF x < 0 THEN 0 - x ELSE x

Sign(x) == IF x < 0 THEN 0 - 1 ELSE 1

RECURSIVE LongDiv(_, _, _, _)
LongDiv(k, q, r, den) ==
    IF k = 0 THEN <<q, r>>
    ELSE LongDiv(k - 1, q * 10 + ((r * 10) \div den), (r * 10) % den, den)

\* round(num / den, k), den # 0
RoundDiv(num, den, k) ==
    LET n == Abs(num)
        d == Abs(den)
        qr == LongDiv(k, n \div d, n % d, d)
        q == qr[1]
        r == qr[2]
        up == IF 2 * r > d THEN 1 ELSE IF 2 * r < d THEN 0 ELSE q % 2
    IN  Sign(num) * Sign(den) * (q + up)

\* round(calculate_ppm_error(mass, theo_mass), 2) in hundredths of a ppm:
\* (theo_mass - mass) / (theo_mass * 0.000001), theo_mass # 0
ppm_error_rounded(mass, theo_mass) == RoundDiv(theo_mass - mass, theo_mass, 8)

(***************************************************************************)
(* Library normaliser.  A library is [shape, entries]:                     *)
(*   shape = "odict": an OrderedDict label -> mass (a float, charge 1) or  *)
(*                    label -> {mass, charge}; entries are                 *)
(*                    [label, mass, charge] in insertion order;            *)
(*   shape = "list" : a list of ordered entries (comparison pairs of kind  *)
(*                    "diff" or "bad");                                    *)
(*   shape = "dict" : a plain mapping; "other": any other type.            *)
(* The entries of one OrderedDict are all floats or all {mass, charge}.    *)
(***************************************************************************)
\* itertools.combinations(lib, 2): the index pairs <<i, j>>, i < j, in lexicographic order
RECURSIVE combinations(_, _, _)
combinations(n, i, j) ==
    IF i >= n THEN <<>>
    ELSE IF j > n THEN combinations(n, i + 1, i + 2)
    ELSE <<(<<i, j>>)>> \o combinations(n, i, j + 1)

\* _prep_lib, lines 57-64: one comparison pair per combination, in combination order
LibPairs(entries) ==
    LET combs == combinations(Len(entries), 1, 2)
    IN  [k \in 1 .. Len(combs) |->
            LET a == entries[combs[k][1]]
                b == entries[combs[k][2]]
            IN  MassPair(a.label, a.mass, a.charge, b.label, b.mass, b.charge)]

\* the sort key of line 65 and the one of line 69
PairKey(lib_pair) ==
    IF lib_pair.kind = "mass" THEN lib_pair.mass_a - lib_pair.mass_b ELSE lib_pair.mass_difference

\* sorted(..., reverse=False): ascending and stable
RECURSIVE InsertAscending(_, _)
InsertAscending(sorted, x) ==
    IF sorted = <<>> THEN <<x>>
    ELSE IF PairKey(Head(sorted)) <= PairKey(x)
         THEN <<Head(sorted)>> \o InsertAscending(Tail(sorted), x)
         ELSE <<x>> \o sorted

RECURSIVE SortedAscending(_)
SortedAscending(items) ==
    IF items = <<>> THEN <<>>
    ELSE InsertAscending(SortedAscending(SubSeq(items, 1, Len(items) - 1)), items[Len(items)])

\* sorted(..., key=..., reverse=True): descending by key, equal keys keep their order
RECURSIVE InsertDescending(_, _)
InsertDescending(sorted, x) ==
    IF sorted = <<>> THEN <<x>>
    ELSE IF PairKey(Head(sorted)) >= PairKey(x)
         THEN <<Head(sorted)>> \o InsertDescending(Tail(sorted), x)
         ELSE <<x>> \o sorted

RECURSIVE SortedReverse(_)
SortedReverse(items) ==
    IF items = <<>> THEN <<>>
    ELSE InsertDescending(SortedReverse(SubSeq(items, 1, Len(items) - 1)), items[Len(items)])

\* _prep_lib(lib): the ordered comparison pairs, or the exception raised
prep_lib(l) ==
    IF l.shape = "odict"
    THEN [raised |-> "none", value |-> SortedReverse(LibPairs(l.entries))]
    ELSE IF l.shape = "list"
    THEN IF l.entries = <<>>
         THEN [raised |-> "IndexError", value |-> <<>>]
         ELSE IF l.entries[1].kind = "diff"
         THEN [raised |-> "none", value |-> SortedReverse(l.entries)]
         ELSE [raised |-> "ValueError", value |-> <<>>]
    ELSE [raised |-> "ValueError", value |-> <<>>]

(***************************************************************************)
(* Reference range stores.  A reference entry is                           *)
(*   [compound_id, exact_mass, molecular_formula, rules]                   *)
(* where rules says whether lewis, senior, HC and NOPSC are all 1.  The    *)
(* store keeps its rows in insertion order; a range query returns the      *)
(* matching rows (the order of the rows returned is the store's).          *)
(***************************************************************************)
FxOfInt(m) == <<m, 0>>

\* exact_mass >= lo and exact_mass < hi: the upper bound excluded
InRangeHalfOpen(exact_mass, min_tol, max_tol) ==
    FxLeq(min_tol, FxOfInt(exact_mass)) /\ FxLess(FxOfInt(exact_mass), max_tol)

\* "exact_mass >= {} and exact_mass <= {}" of the three SELECT statements
InRange(exact_mass, min_tol, max_tol) ==
    FxLeq(min_tol, FxOfInt(exact_mass)) /\ FxLeq(FxOfInt(exact_mass), max_tol)

RECURSIVE SelectRows(_, _, _, _)
SelectRows(rows, min_tol, max_tol, rules) ==
    IF rows = <<>> THEN <<>>
    ELSE LET r == Head(rows)
             rest == SelectRows(Tail(rows), min_tol, max_tol, rules)
         IN  IF InRange(r.exact_mass, min_tol, max_tol) /\ (rules => r.rules)
             THEN <<r>> \o rest
             ELSE rest

\* DbMolecularFormulaeMemory.select_mf(min_tol, max_tol, rules)
select_mf(store, min_tol, max_tol, rules) == SelectRows(store, min_tol, max_tol, rules)

\* DbCompoundsMemory.select_compounds(min_tol, max_tol)
select_compounds(store, min_tol, max_tol) == SelectRows(store, min_tol, max_tol, FALSE)

\* DbDrugCompoundsMemory.select(min_tol, max_tol)
select(store, min_tol, max_tol) == SelectRows(store, min_tol, max_tol, FALSE)

(***************************************************************************)
(* Peaks and graphs.  A peak is [name, mz, intensity].  The relationship    *)
(* graph has the peaks of the run as its nodes, in peak order, and a        *)
(* sequence of directed edges <<a, b>> over peak names; a node's successors *)
(* are iterated in edge order.                                             *)
(***************************************************************************)
Range(f) == {f[x] : x \in DOMAIN f}

RECURSIVE Flatten(_)
Flatten(ss) == IF ss = <<>> THEN <<>> ELSE Head(ss) \o Flatten(Tail(ss))

PeakOf(pl, name) == pl[CHOOSE k \in 1 .. Len(pl) : pl[k].name = name]

\* the nodes reached from n along the edges' own direction only
RECURSIVE ReachForward(_, _)
ReachForward(es, seen) ==
    LET more == seen \cup {e[2] : e \in {x \in Range(es) : x[1] \in seen}}
    IN  IF more = seen THEN seen ELSE ReachForward(es, more)

\* nx.weakly_connected_components: the nodes joined to n by edges taken in either direction
RECURSIVE Reach(_, _)
Reach(es, seen) ==
    LET more == seen \cup {e[2] : e \in {x \in Range(es) : x[1] \in seen}}
                     \cup {e[1] : e \in {x \in Range(es) : x[2] \in seen}}
    IN  IF more = seen THEN seen ELSE Reach(es, more)

\* the components, each a set of names, in the order of their first node
RECURSIVE ComponentsFrom(_, _, _)
ComponentsFrom(names, es, done) ==
    IF names = <<>> THEN <<>>
    ELSE IF Head(names) \in done THEN ComponentsFrom(Tail(names), es, done)
    ELSE LET c == Reach(es, {Head(names)})
         IN  <<c>> \o ComponentsFrom(Tail(names), es, done \cup c)

Names(pl) == [k \in 1 .. Len(pl) |-> pl[k].name]

weakly_connected_components(pl, es) == ComponentsFrom(Names(pl), es, {})

\* graph.neighbors(n): the successors of n, in edge order
neighbors(es, n) ==
    LET out == SelectSeq(es, LAMBDA e : e[1] = n)
    IN  [k \in 1 .. Len(out) |-> out[k][2]]

\* G.edges() of the subgraph on component c: node by node, each node's successors in order
SubgraphEdges(pl, es, c) ==
    LET ns == SelectSeq(Names(pl), LAMBDA n : n \in c)
    IN  Flatten([k \in 1 .. Len(ns) |-> SelectSeq(es, LAMBDA e : e[1] = ns[k])])

\* the edges evaluated when the source is a DiGraph: component by component
GraphEdges(pl, es) ==
    LET cs == weakly_connected_components(pl, es)
    IN  Flatten([k \in 1 .. Len(cs) |-> SubgraphEdges(pl, es, cs[k])])

(***************************************************************************)
(* Pairwise / graph matchers                                               *)
(***************************************************************************)
\* the record yielded for a matching peak pair and comparison pair (lines 131-152, 165-187)
Assignment(x, y, lib_pair) ==
    [peak_id_a |-> x.name, peak_id_b |-> y.name,
     label_a |-> lib_pair.label_a, label_b |-> lib_pair.label_b,
     charge_a |-> lib_pair.charge_a, charge_b |-> lib_pair.charge_b,
     ppm_error |->
        IF lib_pair.kind = "diff"
        THEN ppm_error_rounded(x.mz, y.mz - lib_pair.mass_difference)
        ELSE ppm_error_rounded((x.mz - lib_pair.mass_a) * lib_pair.charge_a,
                               (y.mz - lib_pair.mass_b) * lib_pair.charge_b)]

\* the comparison pairs tried on one peak pair up to the first that matches
PairMatchesFirst(x, y, ppm, lib_pairs) ==
    LET hits == SelectSeq(lib_pairs, LAMBDA lp : check_tolerance(x.mz, y.mz, lp, ppm).value = 1)
    IN  IF hits = <<>> THEN <<>> ELSE <<Assignment(x, y, hits[1])>>

\* every comparison pair tried on one peak pair, in order; the matching ones yielded
PairMatches(x, y, ppm, lib_pairs) ==
    LET hits == SelectSeq(lib_pairs, LAMBDA lp : check_tolerance(x.mz, y.mz, lp, ppm).value = 1)
    IN  [k \in 1 .. Len(hits) |-> Assignment(x, y, hits[k])]

\* _annotate_pairs_from_peaklist(peaklist, ppm, lib_pairs)
annotate_pairs_from_peaklist(pl, ppm, lib_pairs) ==
    LET ij == combinations(Len(pl), 1, 2)
    IN  Flatten([k \in 1 .. Len(ij) |-> PairMatches(pl[ij[k][1]], pl[ij[k][2]], ppm, lib_pairs)])

\* _annotate_pairs_from_graph(G, ppm, lib_pairs) on the edges of one subgraph
annotate_pairs_from_graph(pl, es, ppm, lib_pairs) ==
    Flatten([k \in 1 .. Len(es) |->
                PairMatches(PeakOf(pl, es[k][1]), PeakOf(pl, es[k][2]), ppm, lib_pairs)])

(***************************************************************************)
(* Persistence.  A table is [present, rows]; the rows are in rowid order.   *)
(***************************************************************************)
SameKey(r, q, key) == \A c \in key : r[c] = q[c]

HasKey(rows, r, key) == \E k \in 1 .. Len(rows) : SameKey(rows[k], r, key)

\* a plain INSERT into a table without a key: r is appended
InsertAppending(rows, r, key) == Append(rows, r)

\* INSERT OR REPLACE: the row with r's key, if any, is deleted and r is appended
InsertOrReplace(rows, r, key) ==
    Append(SelectSeq(rows, LAMBDA q : ~SameKey(q, r, key)), r)

\* a run of INSERT OR REPLACE statements
RECURSIVE InsertOrReplaceAll(_, _, _)
InsertOrReplaceAll(rows, rs, key) ==
    IF rs = <<>> THEN rows
    ELSE InsertOrReplaceAll(InsertOrReplace(rows, Head(rs), key), Tail(rs), key)

\* a run of plain INSERT statements: [rows, raised]; the first row whose key is stored
\* already raises sqlite3.IntegrityError and ends the run
RECURSIVE InsertAll(_, _, _)
InsertAll(rows, rs, key) ==
    IF rs = <<>> THEN [rows |-> rows, raised |-> "none"]
    ELSE IF HasKey(rows, Head(rs), key) THEN [rows |-> rows, raised |-> "IntegrityError"]
    ELSE InsertAll(Append(rows, Head(rs)), Tail(rs), key)

(***************************************************************************)
(* annotate_oligomers.  The adduct library is label -> mass (a float).  The *)
(* display label "{n}M..." is kept as [mult |-> n, adduct |-> label].       *)
(* Every m/z of a run differs from every adduct mass (no division by zero). *)
(***************************************************************************)
\* the record inserted for peak x, partner y, adduct a and multiplicity d (lines 454-466, 491-502)
OligomerRow(x, y, a, d) ==
    [peak_id_a |-> x.name, peak_id_b |-> y.name, mz_a |-> x.mz, mz_b |-> y.mz,
     label_a |-> a.label,
     label_b |-> [mult |-> RoundDiv(y.mz - a.mass, x.mz - a.mass, 0), adduct |-> a.label],
     mz_ratio |-> RoundDiv(y.mz - a.mass, x.mz - a.mass, 2),
     ppm_error |-> ppm_error_rounded((x.mz - a.mass) + (x.mz - a.mass) * d, y.mz - a.mass)]

\* the scaled candidate's window and the target's window (lines 439-440, 476-477)
OligomerWindows(x, y, a, d, ppm) ==
    LET wa == calculate_mz_tolerance(x.mz + ((x.mz - a.mass) * d), ppm)
        wb == calculate_mz_tolerance(y.mz, ppm)
    IN  [min_tol_a |-> wa[1], max_tol_a |-> wa[2], min_tol_b |-> wb[1], max_tol_b |-> wb[2]]

\* the break condition of lines 442 and 479
TargetAbove(w) == FxLess(w.max_tol_a, w.min_tol_b) /\ FxLess(w.max_tol_a, w.max_tol_b)

\* lines 446-452 and 483-489: both windows shifted by the adduct mass, then the strict overlap test
OligomerMatch(w, a) ==
    /\ FxLess(FxSubInt(w.min_tol_a, a.mass), FxSubInt(w.max_tol_b, a.mass))
    /\ FxLess(FxSubInt(w.min_tol_b, a.mass), FxSubInt(w.max_tol_a, a.mass))

\* flat-list mode, the loop over j (lines 474-502); brk = FALSE is the loop without its break
RECURSIVE OligomerScanPeaks(_, _, _, _, _, _, _)
OligomerScanPeaks(pl, i, j, a, d, ppm, brk) ==
    IF j > Len(pl) THEN <<>>
    ELSE LET w == OligomerWindows(pl[i], pl[j], a, d, ppm)
         IN  IF brk /\ TargetAbove(w) THEN <<>>
             ELSE (IF OligomerMatch(w, a) THEN <<OligomerRow(pl[i], pl[j], a, d)>> ELSE <<>>)
                  \o OligomerScanPeaks(pl, i, j + 1, a, d, ppm, brk)

\* flat-list mode (lines 470-502): for adduct, for i, for d in range(1, maximum), for j
OligomersFromPeaklist(pl, adducts, ppm, maximum, brk) ==
    Flatten([ka \in 1 .. Len(adducts) |->
        Flatten([i \in 1 .. Len(pl) |->
            Flatten([d \in 1 .. maximum - 1 |->
                OligomerScanPeaks(pl, i, i + 1, adducts[ka], d, ppm, brk)])])])

\* graph mode, the loop over the adducts (lines 437-466)
RECURSIVE OligomerScanAdducts(_, _, _, _, _, _, _)
OligomerScanAdducts(x, y, adducts, ka, d, ppm, brk) ==
    IF ka > Len(adducts) THEN <<>>
    ELSE LET w == OligomerWindows(x, y, adducts[ka], d, ppm)
         IN  IF brk /\ TargetAbove(w) THEN <<>>
             ELSE (IF OligomerMatch(w, adducts[ka]) THEN <<OligomerRow(x, y, adducts[ka], d)>> ELSE <<>>)
                  \o OligomerScanAdducts(x, y, adducts, ka + 1, d, ppm, brk)

\* graph mode, one node (lines 426-466): for d in range(1, len(neighbors)+1), for nn, if mz_x < mz_y
OligomersFromNode(pl, es, n, adducts, ppm, brk) ==
    LET nb == neighbors(es, n)
    IN  Flatten([d \in 1 .. Len(nb) |->
            Flatten([k \in 1 .. Len(nb) |->
                IF PeakOf(pl, n).mz < PeakOf(pl, nb[k]).mz
                THEN OligomerScanAdducts(PeakOf(pl, n), PeakOf(pl, nb[k]), adducts, 1, d, ppm, brk)
                ELSE <<>>])])

\* graph mode (lines 417-466): component by component, node by node
OligomersFromGraph(pl, es, adducts, ppm, brk) ==
    LET cs == weakly_connected_components(pl, es)
    IN  Flatten([kc \in 1 .. Len(cs) |->
            LET ns == SelectSeq(Names(pl), LAMBDA n : n \in cs[kc])
                ce == SelectSeq(es, LAMBDA e : e[1] \in cs[kc])
            IN  Flatten([kn \in 1 .. Len(ns) |-> OligomersFromNode(pl, ce, ns[kn], adducts, ppm, brk)])])

\* the records annotate_oligomers inserts, in order, were no insert to fail
OligomerMatches(source, pl, es, adducts, ppm, maximum, brk) ==
    IF source = "graph"
    THEN OligomersFromGraph(pl, es, adducts, ppm, brk)
    ELSE OligomersFromPeaklist(pl, adducts, ppm, maximum, brk)

\* the loops as written, with their break
oligomer_matches(source, pl, es, adducts, ppm, maximum) ==
    OligomerMatches(source, pl, es, adducts, ppm, maximum, TRUE)

\* PRIMARY KEY (peak_id_a, peak_id_b, label_a, label_b) of adduct_pairs and isotopes
RelationKey == {"peak_id_a", "peak_id_b", "label_a", "label_b"}

\* PRIMARY KEY (peak_id_a, peak_id_b) of the oligomers table
OligomersKey == {"peak_id_a", "peak_id_b"}

(***************************************************************************)
(* The destination store and the state before any call                     *)
(***************************************************************************)
NoRet == [op |-> "none"]

Tables ==
    {"adduct_pairs", "isotopes", "multiple_charged_ions", "oligomers", "artifacts",
     "molecular_formulae", "compounds_hmdb", "compounds_kegg", "drug_products",
     "groups", "peaklist", "peak_labels", "summary"}

NoTable == [present |-> FALSE, rows |-> <<>>]

\* DROP TABLE IF EXISTS ...; CREATE TABLE ...
NewTable == [present |-> TRUE, rows |-> <<>>]

EmptyDb == [t \in Tables |-> NoTable]

(***************************************************************************)
(* annotate_adducts and annotate_isotopes.  A column that may hold NULL is  *)
(* <<>> for NULL and <<v>> for the value v.  atoms, a quotient of two       *)
(* products, is kept as the fraction [num, den] in lowest terms.            *)
(***************************************************************************)
Null == <<>>

Some(v) == <<v>>

RECURSIVE Gcd(_, _)
Gcd(a, b) == IF b = 0 THEN a ELSE Gcd(b, a % b)

Fraction(num, den) == [num |-> num \div Gcd(num, den), den |-> den \div Gcd(num, den)]

\* the record written to adduct_pairs (lines 313-315, 319-321)
AdductRow(asg) ==
    [peak_id_a |-> asg.peak_id_a, peak_id_b |-> asg.peak_id_b,
     label_a |-> asg.label_a, label_b |-> asg.label_b, ppm_error |-> asg.ppm_error]

\* the assignments of one run: component by component for a graph, pair by pair for a peak list
Assignments(source, pl, es, ppm, lib_pairs) ==
    IF source = "graph"
    THEN annotate_pairs_from_graph(pl, GraphEdges(pl, es), ppm, lib_pairs)
    ELSE annotate_pairs_from_peaklist(pl, ppm, lib_pairs)

\* "if not add": DROP TABLE IF EXISTS, CREATE TABLE; the table the inserts then go to
OpenTableTruncating(add, t) == NewTable

OpenTable(add, t) == IF add THEN t ELSE NewTable

\* annotate_adducts(source, db_out, ppm, lib, add) on the store d: [db, raised]
annotate_adducts(d, source, pl, es, ppm, l, add) ==
    LET before == OpenTable(add, d["adduct_pairs"])
        lib_pairs == prep_lib(l)
        asgs == Assignments(source, pl, es, ppm, lib_pairs.value)
        rs == [k \in 1 .. Len(asgs) |-> AdductRow(asgs[k])]
        raised == IF lib_pairs.raised # "none" THEN lib_pairs.raised
                  ELSE IF ~before.present /\ rs # <<>> THEN "OperationalError"
                  ELSE "none"
    IN  [db |-> [d EXCEPT !["adduct_pairs"] =
                    IF raised = "none" /\ before.present
                    THEN [present |-> TRUE,
                          rows |-> InsertOrReplaceAll(before.rows, rs, RelationKey)]
                    ELSE before],
         raised |-> raised]

MultipleChargedIonsKey ==
    {"peak_id_a", "peak_id_b", "label_a", "label_b", "charge_a", "charge_b"}

\* annotate_multiple_charged_ions(source, db_out, ppm, lib, add) on the store d: [db, raised].
\* source[0] of a graph without nodes (no component) is an IndexError.
annotate_multiple_charged_ions(d, source, pl, es, ppm, l, add) ==
    LET before == OpenTable(add, d["multiple_charged_ions"])
        lib_pairs == prep_lib(l)
        rs == Assignments(source, pl, es, ppm, lib_pairs.value)
        raised == IF lib_pairs.raised # "none" THEN lib_pairs.raised
                  ELSE IF source = "graph" /\ pl = <<>> THEN "IndexError"
                  ELSE IF ~before.present /\ rs # <<>> THEN "OperationalError"
                  ELSE "none"
    IN  [db |-> [d EXCEPT !["multiple_charged_ions"] =
                    IF raised = "none" /\ before.present
                    THEN [present |-> TRUE,
                          rows |-> InsertOrReplaceAll(before.rows, rs, MultipleChargedIonsKey)]
                    ELSE before],
         raised |-> raised]

\* abundances[label] of lines 345-348; an entry later in the library overrides an earlier one
Abundance(entries, label) ==
    LET ks == {k \in 1 .. Len(entries) : label \in {entries[k].label_a, entries[k].label_b}}
        last == CHOOSE k \in ks : \A j \in ks : j <= k
    IN  IF entries[last].label_b = label THEN entries[last].abundance_b
        ELSE entries[last].abundance_a

\* each peak's intensity times the abundance of its own label, larger-abundance side on top
atoms_own_label(ab_a, ab_b, intensity_a, intensity_b) ==
    LET a == ab_a * intensity_a
        b == ab_b * intensity_b
    IN  IF a = 0 \/ b = 0 THEN Null
        ELSE IF ab_a < ab_b THEN Some(Fraction(b, a)) ELSE Some(Fraction(a, b))

\* lines 361-369 and 379-387
atoms(ab_a, ab_b, intensity_a, intensity_b) ==
    LET y == ab_a * intensity_b
        x == ab_b * intensity_a
    IN  IF x = 0 \/ y = 0 THEN Null
        ELSE IF ab_a < ab_b THEN Some(Fraction(x, y)) ELSE Some(Fraction(y, x))

\* the record annotate_isotopes hands to its insert statement
IsotopeRow(asg, entries, pl) ==
    [peak_id_a |-> asg.peak_id_a, peak_id_b |-> asg.peak_id_b,
     label_a |-> asg.label_a, label_b |-> asg.label_b,
     atoms |-> atoms(Abundance(entries, asg.label_a), Abundance(entries, asg.label_b),
                     PeakOf(pl, asg.peak_id_a).intensity, PeakOf(pl, asg.peak_id_b).intensity),
     ppm_error |-> asg.ppm_error]

\* the insert statements of annotate_isotopes, in order: [rows, raised].  Graph mode passes
\* float(atoms), a TypeError when atoms is None, and commits once at the end, so a raise
\* leaves the table empty; flat-list mode commits after each insert.
RECURSIVE InsertIsotopes(_, _, _)
InsertIsotopes(rows, rs, source) ==
    IF rs = <<>> THEN [rows |-> rows, raised |-> "none"]
    ELSE IF source = "graph" /\ Head(rs).atoms = Null
    THEN [rows |-> <<>>, raised |-> "TypeError"]
    ELSE IF HasKey(rows, Head(rs), RelationKey)
    THEN [rows |-> IF source = "graph" THEN <<>> ELSE rows, raised |-> "IntegrityError"]
    ELSE InsertIsotopes(Append(rows, Head(rs)), Tail(rs), source)

(***************************************************************************)
(* Reference-match orchestrators, run against a local in-memory store:      *)
(* annotate_molecular_formulae (db_in a file), annotate_compounds (db_in a  *)
(* text file) and annotate_drug_products (the predicted products held in    *)
(* refs).  The adduct library is label -> mass.                            *)
(***************************************************************************)
\* the quotient with theo_mass itself as the numerator
calculate_ppm_error_undifferenced(mass, theo_mass) ==
    [num |-> PpmDen, den |-> 1]

\* calculate_ppm_error(mass, theo_mass), theo_mass # 0: the exact quotient in lowest terms,
\* the denominator positive
calculate_ppm_error(mass, theo_mass) ==
    LET n == (theo_mass - mass) * PpmDen * Sign(theo_mass)
        g == Gcd(Abs(n), Abs(theo_mass))
    IN  [num |-> n \div g, den |-> Abs(theo_mass) \div g]

\* a floor that lets the de-adducted mass 0.5 itself through
AboveFloorInclusive(mz, mass) == mz - mass >= 50000

\* lines 638, 745, 907: mz - lib_adducts.lib[adduct] > 0.5
AboveFloor(mz, mass) == mz - mass > 50000

\* the range query of one (peak, adduct), lines 641, 748, 909
Lookup(kind, store, peak, adduct, ppm, rules) ==
    LET tol == calculate_mz_tolerance(peak.mz, ppm)
        lo == FxSubInt(tol[1], adduct.mass)
        hi == FxSubInt(tol[2], adduct.mass)
    IN  IF kind = "molecular_formulae" THEN select_mf(store, lo, hi, rules)
        ELSE IF kind = "compounds" THEN select_compounds(store, lo, hi)
        ELSE select(store, lo, hi)

\* the record completed with the peak and the adduct's label, its exact mass left as stored
ReferenceRowUnshifted(kind, peak, adduct, record) ==
    [id |-> peak.name, mz |-> peak.mz,
     exact_mass |-> record.exact_mass,
     ppm_error |-> calculate_ppm_error(peak.mz, record.exact_mass + adduct.mass),
     adduct |-> adduct.label,
     molecular_formula |-> record.molecular_formula,
     compound_id |-> IF kind = "molecular_formulae" THEN Null ELSE Some(record.compound_id)]

\* lines 649-664, 757-762, 911-916: the record completed with the peak and the adduct
ReferenceRow(kind, peak, adduct, record) ==
    [id |-> peak.name, mz |-> peak.mz,
     exact_mass |-> record.exact_mass + adduct.mass,
     ppm_error |-> calculate_ppm_error(peak.mz, record.exact_mass + adduct.mass),
     adduct |-> adduct.label,
     molecular_formula |-> record.molecular_formula,
     compound_id |-> IF kind = "molecular_formulae" THEN Null ELSE Some(record.compound_id)]

\* the records handed to the insert statements, peak by peak, adduct by adduct
reference_matches(kind, pl, adducts, ppm, store, rules) ==
    Flatten([i \in 1 .. Len(pl) |->
        Flatten([ka \in 1 .. Len(adducts) |->
            IF AboveFloor(pl[i].mz, adducts[ka].mass)
            THEN LET records == Lookup(kind, store, pl[i], adducts[ka], ppm, rules)
                 IN  [k \in 1 .. Len(records) |-> ReferenceRow(kind, pl[i], adducts[ka], records[k])]
            ELSE <<>>])])

\* primary key (id, mz, molecular_formula, adduct), line 607
MolecularFormulaeKey == {"id", "mz", "molecular_formula", "adduct"}

\* primary key (id, compound_id, adduct), line 735
CompoundsKey == {"id", "compound_id", "adduct"}

\* primary key (id, adduct, compound_id), line 871
DrugProductsKey == {"id", "adduct", "compound_id"}

\* the table after the run's plain inserts and its one commit at the end: a raise loses them all
Persisted(ins) == IF ins.raised = "none" THEN [present |-> TRUE, rows |-> ins.rows] ELSE NewTable

(***************************************************************************)
(* summary, on a store that holds no groups table.  A report row is        *)
(*   [name, mz, intensity, label, charge, oligomer, isotopes]              *)
(* (rt is copied like mz and intensity and is left out; the isotopes field  *)
(* stands for the four isotope columns and is NULL when they are absent),   *)
(* followed, on a store with a reference-match table, by                    *)
(*   [exact_mass, ppm_error, adduct, molecular_formula, compound_id]       *)
(* (the atom counts go with molecular_formula and compound_name goes with   *)
(* compound_id; compound_id is NULL where the column is absent).            *)
(* Rows are listed peak by peak in peak_labels order: the order in which    *)
(* the query plan returns the rows of one peak is not modelled, nor is the  *)
(* order inside a group_concat: the labels are kept as a set, the           *)
(* reference columns in the order of the rows listed here.                  *)
(***************************************************************************)
\* round(x, k) of SQLite on num / den: half away from zero
SqlRound(num, den, k) ==
    LET qr == LongDiv(k, Abs(num) \div Abs(den), Abs(num) % Abs(den), Abs(den))
    IN  Sign(num) * Sign(den) * (qr[1] + (IF 2 * qr[2] >= Abs(den) THEN 1 ELSE 0))

\* UNION: duplicates dropped
RECURSIVE Distinct(_)
Distinct(rows) ==
    IF rows = <<>> THEN <<>>
    ELSE LET front == Distinct(SubSeq(rows, 1, Len(rows) - 1))
             r == rows[Len(rows)]
         IN  IF r \in Range(front) THEN front ELSE Append(front, r)

\* tables_amo, line 935
tables_amo == <<"adduct_pairs", "multiple_charged_ions", "oligomers", "isotopes">>

\* flag_amo, line 987
flag_amo(d) == \E k \in 1 .. Len(tables_amo) : d[tables_amo[k]].present

\* flag_isotopes, line 988
flag_isotopes(d) == d["isotopes"].present

\* sub_queries of lines 991-1005: empty when isotopes is the only relationship table
sub_queries(d) == SelectSeq(SubSeq(tables_amo, 1, 3), LAMBDA t : d[t].present)

LabelRow(peak_id, label, charge, oligomer) ==
    [peak_id |-> peak_id, label |-> Some(label), charge |-> Some(charge), oligomer |-> Some(oligomer)]

\* one sub query of lines 995-1005 on the rows of its table
SubQueryRows(t, rows) ==
    Flatten([k \in 1 .. Len(rows) |->
        IF t = "multiple_charged_ions"
        THEN <<LabelRow(rows[k].peak_id_a, rows[k].label_a, rows[k].charge_a, 1),
               LabelRow(rows[k].peak_id_b, rows[k].label_b, rows[k].charge_b, 1)>>
        ELSE IF t = "oligomers"
        THEN <<LabelRow(rows[k].peak_id_a, rows[k].label_a, 1, 1),
               LabelRow(rows[k].peak_id_b, rows[k].label_b, 1, SqlRound(rows[k].mz_ratio, 100, 0))>>
        ELSE <<LabelRow(rows[k].peak_id_a, rows[k].label_a, 1, 1),
               LabelRow(rows[k].peak_id_b, rows[k].label_b, 1, 1)>>])

\* query_amo, line 1007
query_amo(d) ==
    LET qs == sub_queries(d)
    IN  Distinct(Flatten([k \in 1 .. Len(qs) |-> SubQueryRows(qs[k], d[qs[k]].rows)]))

\* round(atoms, 1) of line 1013, in tenths
AtomsRounded(a) == IF a = Null THEN Null ELSE Some(SqlRound(a[1].num, a[1].den, 1))

\* query_isotopes, lines 1011-1019: one group per peak of the isotopes table, seen from either side
query_isotopes(d, peak_id) ==
    LET rows == d["isotopes"].rows
        mine == {[label_a |-> rows[k].label_a, peak_id_b |-> rows[k].peak_id_b,
                  label_b |-> rows[k].label_b, atoms |-> AtomsRounded(rows[k].atoms)] :
                    k \in {j \in 1 .. Len(rows) : rows[j].peak_id_a = peak_id}}
                \cup {[label_a |-> rows[k].label_b, peak_id_b |-> rows[k].peak_id_a,
                       label_b |-> rows[k].label_a, atoms |-> AtomsRounded(rows[k].atoms)] :
                    k \in {j \in 1 .. Len(rows) : rows[j].peak_id_b = peak_id}}
    IN  IF mine = {} THEN Null ELSE Some(mine)

NullLabels(peak_id, isotopes) ==
    [peak_id |-> peak_id, label |-> Null, charge |-> Null, oligomer |-> Null, isotopes |-> isotopes]

\* CREATE TABLE peak_labels, lines 1022-1047 (no groups table)
create_peak_labels(d, pl) ==
    LET amo == query_amo(d)
    IN  IF flag_isotopes(d)
        THEN Flatten([k \in 1 .. Len(pl) |->
                 LET mine == SelectSeq(amo, LAMBDA r : r.peak_id = pl[k].name)
                     iso == query_isotopes(d, pl[k].name)
                 IN  IF mine = <<>> THEN <<NullLabels(pl[k].name, iso)>>
                     ELSE [j \in 1 .. Len(mine) |->
                              [peak_id |-> mine[j].peak_id, label |-> mine[j].label,
                               charge |-> mine[j].charge, oligomer |-> mine[j].oligomer,
                               isotopes |-> iso]]])
        ELSE [j \in 1 .. Len(amo) |->
                 [peak_id |-> amo[j].peak_id, label |-> amo[j].label, charge |-> amo[j].charge,
                  oligomer |-> amo[j].oligomer, isotopes |-> Null]]

\* lines 1048-1064: INSERT INTO peak_labels SELECT ..., NULL, NULL, NULL ... where label is not NULL
insert_null_labels(rows) ==
    LET labelled == SelectSeq(rows, LAMBDA r : r.label # Null)
    IN  rows \o [k \in 1 .. Len(labelled) |-> NullLabels(labelled[k].peak_id, labelled[k].isotopes)]

\* CREATE TABLE summary, lines 1154-1175: peaklist LEFT JOIN peak_labels
create_summary(pl, peak_labels) ==
    Flatten([k \in 1 .. Len(pl) |->
        LET mine == SelectSeq(peak_labels, LAMBDA r : r.peak_id = pl[k].name)
            joined == IF mine = <<>> THEN <<NullLabels(pl[k].name, Null)>> ELSE mine
        IN  [j \in 1 .. Len(joined) |->
                [name |-> pl[k].name, mz |-> pl[k].mz, intensity |-> pl[k].intensity,
                 label |-> joined[j].label, charge |-> joined[j].charge,
                 oligomer |-> joined[j].oligomer, isotopes |-> joined[j].isotopes]]])

\* the single-row query, lines 1223-1227: GROUP BY name, one row per group
single_row_report(rows) ==
    LET names == Distinct([k \in 1 .. Len(rows) |-> rows[k].name])
    IN  [k \in 1 .. Len(names) |->
            LET group == SelectSeq(rows, LAMBDA r : r.name = names[k])
            IN  [name |-> names[k], mz |-> group[1].mz, intensity |-> group[1].intensity,
                 label_charge_oligomer |->
                     {<<group[j].label, group[j].charge, group[j].oligomer>> :
                         j \in {i \in 1 .. Len(group) : group[i].label # Null}},
                 isotopes |-> group[1].isotopes]]

\* cpd_tables, line 1066: the tables with "compound" in their name
cpd_tables(d) == SelectSeq(<<"compounds_hmdb", "compounds_kegg">>, LAMBDA t : d[t].present)

\* flag_mf and flag_cpd, lines 1068-1069
flag_mf(d) == d["molecular_formulae"].present

flag_cpd(d) == Len(cpd_tables(d)) > 0

\* lines 929-930 and 1021: the peaklist table written anew, peak_labels dropped
NewPeaklist(d, pl) ==
    [d EXCEPT !["peaklist"] = [present |-> TRUE, rows |-> pl], !["peak_labels"] = NoTable]

\* summary without the check of lines 1149-1150: the report is the peak list itself
summary_unchecked(d, pl, single_row) ==
    LET rows == [k \in 1 .. Len(pl) |-> [name |-> pl[k].name, mz |-> pl[k].mz,
                                          intensity |-> pl[k].intensity]]
    IN  [db |-> [NewPeaklist(d, pl) EXCEPT !["summary"] = [present |-> TRUE, rows |-> rows]],
         raised |-> "none", out |-> rows]

\* the columns of a reference-match row that the report selects, line 1072
RefColumns(r, compound_id) ==
    [id |-> r.id, exact_mass |-> r.exact_mass, ppm_error |-> r.ppm_error, adduct |-> r.adduct,
     molecular_formula |-> r.molecular_formula, compound_id |-> compound_id]

\* select * from <t1> union select * from <t2>, lines 1074-1079 and 1085-1088
compounds_union(d) ==
    LET ts == cpd_tables(d)
    IN  Distinct(Flatten([k \in 1 .. Len(ts) |-> d[ts[k]].rows]))

\* CREATE TEMP TABLE mf_cd, lines 1090-1102: formulae with the compounds of the same formula and
\* adduct (of whichever peak), then the compounds that no formula row agrees with
mf_cd(d) ==
    LET mfs == d["molecular_formulae"].rows
        cpds == compounds_union(d)
        agree(mf, c) == mf.molecular_formula = c.molecular_formula /\ mf.adduct = c.adduct
        alone == SelectSeq(cpds, LAMBDA c : \A k \in 1 .. Len(mfs) : ~agree(mfs[k], c))
    IN  Distinct(
            Flatten([k \in 1 .. Len(mfs) |->
                LET cs == SelectSeq(cpds, LAMBDA c : agree(mfs[k], c))
                IN  IF cs = <<>> THEN <<RefColumns(mfs[k], Null)>>
                    ELSE [j \in 1 .. Len(cs) |-> RefColumns(mfs[k], cs[j].compound_id)]])
            \o [k \in 1 .. Len(alone) |-> RefColumns(alone[k], alone[k].compound_id)])

\* the table joined last, lines 1084-1139
reference_rows(d) ==
    IF flag_mf(d) /\ flag_cpd(d) THEN mf_cd(d)
    ELSE IF flag_cpd(d)
    THEN LET cpds == compounds_union(d)
         IN  [k \in 1 .. Len(cpds) |-> RefColumns(cpds[k], cpds[k].compound_id)]
    ELSE LET mfs == d["molecular_formulae"].rows
         IN  [k \in 1 .. Len(mfs) |-> RefColumns(mfs[k], Null)]

\* the ON condition of lines 1115-1119, 1124-1128 and 1133-1139: the peak id, and with
\* relationship tables the label equal to the adduct, or the NULL label where no label of the
\* peak equals the adduct
JoinsReference(amo, peak_labels, row, r) ==
    /\ row.name = r.id
    /\ amo => \/ row.label = Some(r.adduct)
              \/ /\ row.label = Null
                 /\ ~\E k \in 1 .. Len(peak_labels) :
                        peak_labels[k].peak_id = r.id /\ peak_labels[k].label = Some(r.adduct)

NoReference ==
    [exact_mass |-> Null, ppm_error |-> Null, adduct |-> Null, molecular_formula |-> Null,
     compound_id |-> Null]

ReferenceColumns(r) ==
    [exact_mass |-> Some(r.exact_mass), ppm_error |-> Some(r.ppm_error), adduct |-> Some(r.adduct),
     molecular_formula |-> Some(r.molecular_formula), compound_id |-> r.compound_id]

\* CREATE TABLE summary, lines 1154-1175: the rows so far LEFT JOIN the reference-match rows
join_references(rows, refrows, amo, peak_labels) ==
    Flatten([k \in 1 .. Len(rows) |->
        LET ms == SelectSeq(refrows, LAMBDA r : JoinsReference(amo, peak_labels, rows[k], r))
        IN  IF ms = <<>> THEN <<rows[k] @@ NoReference>>
            ELSE [j \in 1 .. Len(ms) |-> rows[k] @@ ReferenceColumns(ms[j])]])

\* group_concat(column, '||') of lines 1200-1220 over the rows of one peak: NULL cells are
\* skipped, and the result is NULL when all are
group_concat(group, column) ==
    LET cells == SelectSeq([j \in 1 .. Len(group) |-> group[j][column]], LAMBDA c : c # Null)
    IN  IF cells = <<>> THEN Null ELSE Some([j \in 1 .. Len(cells) |-> cells[j][1]])

\* the reference columns of the single-row query, lines 1187-1236; ppm_error in hundredths;
\* a compound_id made of the one word "None" is replaced by the empty string
single_row_references(rows, cpd) ==
    LET names == Distinct([k \in 1 .. Len(rows) |-> rows[k].name])
    IN  [k \in 1 .. Len(names) |->
            LET group == SelectSeq(rows, LAMBDA r : r.name = names[k])
                ids == [j \in 1 .. Len(group) |->
                           IF group[j].compound_id = Null THEN "None" ELSE group[j].compound_id[1]]
                errors == SelectSeq(group, LAMBDA r : r.ppm_error # Null)
            IN  [molecular_formula |-> group_concat(group, "molecular_formula"),
                 adduct |-> group_concat(group, "adduct"),
                 compound_id |-> IF ~cpd THEN Null ELSE IF ids = <<"None">> THEN Some(<<>>) ELSE Some(ids),
                 exact_mass |-> group_concat(group, "exact_mass"),
                 ppm_error |-> IF errors = <<>> THEN Null
                               ELSE Some([j \in 1 .. Len(errors) |->
                                        SqlRound(errors[j].ppm_error[1].num, errors[j].ppm_error[1].den, 2)])]]

\* one row per peak, lines 1223-1227, on a store without relationship tables
single_row_peaks(rows) ==
    LET names == Distinct([k \in 1 .. Len(rows) |-> rows[k].name])
    IN  [k \in 1 .. Len(names) |->
            LET group == SelectSeq(rows, LAMBDA r : r.name = names[k])
            IN  [name |-> names[k], mz |-> group[1].mz, intensity |-> group[1].intensity]]

\* summary(df, db, single_row): the store it leaves, the exception it raises, the report
summary(d, pl, single_row) ==
    LET d1 == NewPeaklist(d, pl)
        amo == flag_amo(d)
        ref == flag_mf(d) \/ flag_cpd(d)
    IN  IF ~amo /\ ~ref
        THEN [db |-> d1, raised |-> "ValueError", out |-> <<>>]
        ELSE IF amo /\ sub_queries(d) = <<>>
        THEN [db |-> d1, raised |-> "OperationalError", out |-> <<>>]
        ELSE LET labels == IF amo THEN insert_null_labels(create_peak_labels(d, pl)) ELSE <<>>
                 labelled == IF amo THEN create_summary(pl, labels)
                             ELSE [k \in 1 .. Len(pl) |->
                                      [name |-> pl[k].name, mz |-> pl[k].mz, intensity |-> pl[k].intensity]]
                 rows == IF ref THEN join_references(labelled, reference_rows(d), amo, labels)
                         ELSE labelled
                 single == IF amo THEN single_row_report(rows) ELSE single_row_peaks(rows)
                 cells == single_row_references(rows, flag_cpd(d))
             IN  [db |-> [d1 EXCEPT !["peak_labels"] = IF amo THEN [present |-> TRUE, rows |-> labels]
                                                        ELSE NoTable,
                                    !["summary"] = [present |-> TRUE, rows |-> rows]],
                  raised |-> "none",
                  out |-> IF ~single_row THEN rows
                          ELSE IF ref THEN [k \in 1 .. Len(single) |-> single[k] @@ cells[k]]
                          ELSE single]

(***************************************************************************)
(* SpecTol: the pure tolerance functions, called on bounded inputs         *)
(***************************************************************************)
MzSpan == 3
PpmSteps == 2
MaxShift == 2
MaxCharge == 2

TolMz == 99999 .. (99999 + MzSpan)
TolPpm == {5 * k : k \in 0 .. PpmSteps}
TolPairs ==
    {MassPair("A", ma, ca, "B", mb, cb) :
        ma \in 0 .. MaxShift, ca \in 1 .. MaxCharge, mb \in 0 .. MaxShift, cb \in 1 .. MaxCharge}
    \cup {DiffPair("A", 1, "B", 1, d) : d \in 0 .. MaxShift}
    \cup {BadPair("A", "B")}

InitTol ==
    /\ peaklist = <<>>
    /\ edges = <<>>
    /\ refs = <<>>
    /\ db = EmptyDb
    /\ ret = NoRet
    /\ lib \in TolPairs
    /\ arg \in [mz_x : TolMz, mz_y : TolMz, ppm : TolPpm]

CallCheckTolerance ==
    /\ ret' = [op |-> "_check_tolerance",
               out |-> check_tolerance(arg.mz_x, arg.mz_y, lib, arg.ppm)]
    /\ UNCHANGED <<peaklist, edges, lib, refs, arg, db>>

NextTol == CallCheckTolerance

SpecTol == InitTol /\ [][NextTol]_vars

(***************************************************************************)
(* C1: _check_tolerance reports a match exactly when the shifted, charge    *)
(* corrected windows [x1, x2] and [y1, y2] satisfy x1 < y2 and y1 < x2; *)
(* when the windows only touch (x2 = y1 or y2 = x1) it reports no match.   *)
(***************************************************************************)
RetWindows == ToleranceWindows(arg.mz_x, arg.mz_y, lib, arg.ppm)

Touching(w) == w.max_tol_a = w.min_tol_b \/ w.max_tol_b = w.min_tol_a

MaxLabels == 3

LabelNames == <<"[M+H]+", "[M+Na]+", "[M+K]+", "[M+NH4]+", "[M+2H]2+">>
IsotopeNames == <<"C", "(13C)", "S", "(34S)", "Cl", "(37Cl)", "K", "(41K)", "N", "(15N)">>
LibMasses == {100728, 1803383, 2298922, 3896316}

\* the OrderedDict library of the masses m and the charges c
OdictLib(m, c) ==
    [shape |-> "odict",
     entries |-> [k \in DOMAIN m |-> [label |-> LabelNames[k], mass |-> m[k], charge |-> c[k]]]]

\* the list libraries of n entries
ListLibs(n) ==
    {[shape |-> "list",
      entries |-> [k \in 1 .. n |->
          IF k = 1 /\ bad THEN BadPair(IsotopeNames[1], IsotopeNames[2])
          ELSE DiffPair(IsotopeNames[2 * k - 1], 9893, IsotopeNames[2 * k], 107, d[k])]] :
        d \in [1 .. n -> {100335, 199580, 199705}], bad \in BOOLEAN}

OtherLibs == {[shape |-> "dict", entries |-> <<>>], [shape |-> "other", entries |-> <<>>]}

InitLib ==
    /\ peaklist = <<>>
    /\ edges = <<>>
    /\ refs = <<>>
    /\ arg = <<>>
    /\ db = EmptyDb
    /\ ret = NoRet
    /\ \/ \E n \in 0 .. MaxLabels :
            \E m \in [1 .. n -> LibMasses], c \in [1 .. n -> 1 .. MaxCharge] : lib = OdictLib(m, c)
       \/ lib \in UNION {ListLibs(n) : n \in 0 .. MaxLabels} \cup OtherLibs

CallPrepLib ==
    /\ ret' = [op |-> "_prep_lib", out |-> prep_lib(lib)]
    /\ UNCHANGED <<peaklist, edges, lib, refs, arg, db>>

NextLib == CallPrepLib

SpecLib == InitLib /\ [][NextLib]_vars

PrepLibDone == ret.op = "_prep_lib" /\ lib.shape = "odict"

MaxRefs == 3
RefSpan == 2

RefIds == <<"HMDB1", "HMDB2", "HMDB3", "HMDB4", "HMDB5">>
RefFormulas == <<"C6H12O6", "C7H16O5", "C5H8O7", "C10H12O3", "C9H8O4">>
RefMasses == 18006339 .. (18006339 + RefSpan)
QueryBounds == {<<u, f>> : u \in 18006338 .. (18006340 + RefSpan), f \in {0, 500000}}

\* compound_id is the primary key of the compound stores and (composition, exact_mass)
\* the one of the formula store: ids and formulae are distinct
Stores ==
    UNION {{[k \in 1 .. n |-> [compound_id |-> RefIds[k], exact_mass |-> m[k],
                               molecular_formula |-> RefFormulas[k], rules |-> (k # 2)]] :
                m \in [1 .. n -> RefMasses]} : n \in 0 .. MaxRefs}

InitStore ==
    /\ peaklist = <<>>
    /\ edges = <<>>
    /\ lib = <<>>
    /\ db = EmptyDb
    /\ ret = NoRet
    /\ refs \in Stores
    /\ arg \in [min_tol : QueryBounds, max_tol : QueryBounds, rules : BOOLEAN]

CallSelectMf ==
    /\ ret' = [op |-> "select_mf", out |-> select_mf(refs, arg.min_tol, arg.max_tol, arg.rules)]
    /\ UNCHANGED <<peaklist, edges, lib, refs, arg, db>>

CallSelectCompounds ==
    /\ ret' = [op |-> "select_compounds", out |-> select_compounds(refs, arg.min_tol, arg.max_tol)]
    /\ UNCHANGED <<peaklist, edges, lib, refs, arg, db>>

CallSelect ==
    /\ ret' = [op |-> "select", out |-> select(refs, arg.min_tol, arg.max_tol)]
    /\ UNCHANGED <<peaklist, edges, lib, refs, arg, db>>

NextStore == CallSelectMf \/ CallSelectCompounds \/ CallSelect

SpecStore == InitStore /\ [][NextStore]_vars

(***************************************************************************)
(* C3: for every store content and every query (lo, hi) the range lookups   *)
(* (select_mf with rules off, select_compounds, select) return exactly the  *)
(* stored entries whose exact mass m satisfies lo <= m <= hi: every         *)
(* returned entry is in the closed range and none in the range is omitted.  *)
(***************************************************************************)
RangeLookupDone ==
    \/ ret.op = "select_mf" /\ ~arg.rules
    \/ ret.op \in {"select_compounds", "select"}

Within(m, lo, hi) ==
    /\ lo[1] < m \/ (lo[1] = m /\ lo[2] = 0)
    /\ m < hi[1] \/ m = hi[1]

C3_ClosedRange ==
    RangeLookupDone =>
        /\ \A k \in 1 .. Len(ret.out) : Within(ret.out[k].exact_mass, arg.min_tol, arg.max_tol)
        /\ \A i \in 1 .. Len(refs) :
               Cardinality({k \in 1 .. Len(ret.out) : ret.out[k] = refs[i]})
                   = IF Within(refs[i].exact_mass, arg.min_tol, arg.max_tol) THEN 1 ELSE 0

C3_Witness ==
    /\ RangeLookupDone
    /\ Len(refs) = 3
    /\ Len(ret.out) = 2
    /\ FxLess(arg.min_tol, arg.max_tol)
    /\ \E k \in 1 .. 2 : FxOfInt(ret.out[k].exact_mass) = arg.max_tol
    /\ \E k \in 1 .. 2 : FxOfInt(ret.out[k].exact_mass) = arg.min_tol

(***************************************************************************)
(* SpecOligo: annotate_oligomers on bounded peak lists, graphs and adduct   *)
(* libraries.  Masses are counts of 1e-5 Da: 10000000 is m/z 100.           *)
(***************************************************************************)
MaxPeaks == 3
MaxMaximum == 4

PeakNames == <<"P1", "P2", "P3", "P4", "P5">>
Sources == {"list", "graph"}

\* [M+H]+ at m/z 100, its [2M+H]+, the trimer of its [M+Na]+ reading, an unrelated peak
OligoMz == {10000000, 19899272, 25402156, 50000000}

OligoAdducts ==
    {[label |-> "[M+H]+", mass |-> 100728, charge |-> 1],
     [label |-> "[M+Na]+", mass |-> 2298922, charge |-> 1],
     [label |-> "[M+X]+", mass |-> 4865948, charge |-> 1]}

OligoLibs ==
    {[shape |-> "odict", entries |-> <<a>>] : a \in OligoAdducts}
    \cup {[shape |-> "odict", entries |-> <<ab[1], ab[2]>>] :
            ab \in {x \in OligoAdducts \X OligoAdducts : x[1].label # x[2].label}}

PeakLists(mzs, intensities) ==
    UNION {{[k \in 1 .. n |-> [name |-> PeakNames[k], mz |-> m[k], intensity |-> v[k]]] :
                m \in [1 .. n -> mzs], v \in [1 .. n -> intensities]} : n \in 0 .. MaxPeaks}

\* every pair of peaks joined, from the earlier to the later peak or the other way round
ForwardEdges(n) == LET ij == combinations(n, 1, 2)
                   IN  [k \in 1 .. Len(ij) |-> <<PeakNames[ij[k][1]], PeakNames[ij[k][2]]>>]
BackwardEdges(n) == LET ij == combinations(n, 1, 2)
                    IN  [k \in 1 .. Len(ij) |-> <<PeakNames[ij[k][2]], PeakNames[ij[k][1]]>>]

InitOligo ==
    /\ refs = <<>>
    /\ db = EmptyDb
    /\ ret = NoRet
    /\ arg = [ppm |-> 5]
    /\ peaklist \in PeakLists(OligoMz, {1000})
    /\ edges \in {ForwardEdges(Len(peaklist)), BackwardEdges(Len(peaklist))}
    /\ lib \in OligoLibs

AnnotateOligomers ==
    \E source \in Sources, maximum \in 2 .. MaxMaximum :
        LET ms == oligomer_matches(source, peaklist, edges, lib.entries, arg.ppm, maximum)
            ins == InsertAll(<<>>, ms, OligomersKey)
        IN  /\ db' = [db EXCEPT !["oligomers"] =
                         IF ins.raised = "none" THEN [present |-> TRUE, rows |-> ins.rows]
                         ELSE NewTable]
            /\ ret' = [op |-> "annotate_oligomers", source |-> source,
                       maximum |-> maximum, raised |-> ins.raised]
            /\ UNCHANGED <<peaklist, edges, lib, refs, arg>>

NextOligo == AnnotateOligomers

SpecOligo == InitOligo /\ [][NextOligo]_vars

(***************************************************************************)
(* C2: in annotate_oligomers, flat-list and graph mode, the early break     *)
(* never changes the outcome: the set of oligomer records produced with the *)
(* break equals the set produced by the same loops with the break removed.  *)
(***************************************************************************)
C2_BreakChangesNothing ==
    (ret.op = "annotate_oligomers" /\ ret.raised = "none") =>
        Range(db["oligomers"].rows)
            = Range(OligomerMatches(ret.source, peaklist, edges, lib.entries, arg.ppm,
                                    ret.maximum, FALSE))

(***************************************************************************)
(* C4: in every relationship table the key (peak_id_a, peak_id_b, label_a,  *)
(* label_b) is unique after any sequence of matches, and a match whose key  *)
(* is already stored replaces the earlier record (last-write-wins) without  *)
(* raising an error, the run continuing.  Stated here for the oligomers     *)
(* table: the run never raises and leaves the records an INSERT OR REPLACE  *)
(* on that key would leave.                                                *)
(***************************************************************************)
C4_OligomersLastWriteWins ==
    ret.op = "annotate_oligomers" =>
        /\ ret.raised = "none"
        /\ db["oligomers"].rows
               = InsertOrReplaceAll(<<>>, oligomer_matches(ret.source, peaklist, edges, lib.entries,
                                                           arg.ppm, ret.maximum), RelationKey)

(***************************************************************************)
(* Spec: an annotation run.  One peak list (or the relationship graph over  *)
(* it), one adduct library and one isotope library; annotate_adducts,       *)
(* annotate_isotopes and summary are called in any order, any number of     *)
(* times, on one destination store.  Peak names are distinct.               *)
(***************************************************************************)
\* <<m/z, intensity>>: m/z 100, its [M+Na]+ partner at 121.98252 and the one after it at
\* 143.96504, a peak at 122.0160, the (13C) and the Li partners of m/z 100
AnnPeaks ==
    {<<10000000, 1000>>, <<10000000, 0>>, <<12198252, 1000>>, <<12201600, 1000>>,
     <<14396504, 1000>>, <<10100335, 30>>, <<10100088, 30>>}

AnnPeakLists ==
    UNION {{[k \in 1 .. n |-> [name |-> PeakNames[k], mz |-> c[k][1], intensity |-> c[k][2]]] :
                c \in [1 .. n -> AnnPeaks]} : n \in 0 .. MaxPeaks}

AdductLibs ==
    {[shape |-> "odict",
      entries |-> <<[label |-> "[M+H]+", mass |-> 100728, charge |-> 1],
                    [label |-> "[M+Na]+", mass |-> 2298980, charge |-> 1]>>],
     [shape |-> "odict",
      entries |-> <<[label |-> "[M+Na]+", mass |-> 2298980, charge |-> 1],
                    [label |-> "[M+H]+", mass |-> 100728, charge |-> 1]>>]}

\* abundances in hundredths of a percent
IsotopeLib ==
    [shape |-> "list",
     entries |-> <<DiffPair("C", 9893, "(13C)", 107, 100335),
                   DiffPair("(6Li)", 759, "Li", 9241, 100088)>>]

Init ==
    /\ refs = <<>>
    /\ db = EmptyDb
    /\ ret = NoRet
    /\ peaklist \in AnnPeakLists
    /\ arg \in [ppm : {5}, source : Sources]
    /\ edges \in IF arg.source = "graph"
                 THEN {ForwardEdges(Len(peaklist)), BackwardEdges(Len(peaklist))}
                 ELSE {<<>>}
    /\ lib \in [adducts : AdductLibs, isotopes : {IsotopeLib}]

\* annotate_adducts(source, db_out, ppm, lib, add)
AnnotateAdducts ==
    \E add \in BOOLEAN :
        LET r == annotate_adducts(db, arg.source, peaklist, edges, arg.ppm, lib.adducts, add)
        IN  /\ db' = r.db
            /\ ret' = [op |-> "annotate_adducts", add |-> add, raised |-> r.raised]
            /\ UNCHANGED <<peaklist, edges, lib, refs, arg>>

\* annotate_isotopes(source, db_out, ppm, lib)
AnnotateIsotopes ==
    LET lib_pairs == prep_lib(lib.isotopes)
        asgs == Assignments(arg.source, peaklist, edges, arg.ppm, lib_pairs.value)
        rs == [k \in 1 .. Len(asgs) |-> IsotopeRow(asgs[k], lib.isotopes.entries, peaklist)]
        ins == InsertIsotopes(<<>>, rs, arg.source)
    IN  /\ db' = [db EXCEPT !["isotopes"] =
                     IF lib_pairs.raised # "none" THEN NewTable
                     ELSE [present |-> TRUE, rows |-> ins.rows]]
        /\ ret' = [op |-> "annotate_isotopes",
                   raised |-> IF lib_pairs.raised # "none" THEN lib_pairs.raised ELSE ins.raised]
        /\ UNCHANGED <<peaklist, edges, lib, refs, arg>>

\* summary(df, db, single_row)
Summary ==
    \E single_row \in BOOLEAN :
        LET s == summary(db, peaklist, single_row)
        IN  /\ db' = s.db
            /\ ret' = [op |-> "summary", single_row |-> single_row,
                       tables |-> {t \in Range(tables_amo) : db[t].present},
                       raised |-> s.raised, out |-> s.out]
            /\ UNCHANGED <<peaklist, edges, lib, refs, arg>>

Next == AnnotateAdducts \/ AnnotateIsotopes \/ Summary

Spec == Init /\ [][Next]_vars

\* annotate_adducts alone, called any number of times on the store of the run
NextAdducts == AnnotateAdducts

SpecAdducts == Init /\ [][NextAdducts]_vars

\* annotate_isotopes alone
NextIsotopes == AnnotateIsotopes

SpecIsotopes == Init /\ [][NextIsotopes]_vars

(***************************************************************************)
(* C9 as stated: for the flat peak list A (m/z 100.0000), B (m/z 122.0160), *)
(* the adduct library {[M+H]+: 1.00728, [M+Na]+: 22.9898} (charge 1) and    *)
(* ppm = 5, annotate_adducts persists an adduct_pairs row linking A and B   *)
(* with labels [M+H]+ / [M+Na]+ and a ppm_error near 0 (within ppm).        *)
(***************************************************************************)
AdductsRun ==
    /\ ret.op = "annotate_adducts"
    /\ ret.raised = "none"
    /\ arg.source = "list"
    /\ arg.ppm = 5
    /\ lib.adducts.entries = <<[label |-> "[M+H]+", mass |-> 100728, charge |-> 1],
                               [label |-> "[M+Na]+", mass |-> 2298980, charge |-> 1]>>

TwoPeaks(mz_a, mz_b) ==
    Len(peaklist) = 2 /\ peaklist[1].mz = mz_a /\ peaklist[2].mz = mz_b

LinkedAsAdducts(rows) ==
    \E k \in 1 .. Len(rows) :
        /\ rows[k].peak_id_a = peaklist[1].name /\ rows[k].peak_id_b = peaklist[2].name
        /\ rows[k].label_a = "[M+H]+" /\ rows[k].label_b = "[M+Na]+"
        /\ Abs(rows[k].ppm_error) <= 100 * arg.ppm

C9_ExampleLinked ==
    (AdductsRun /\ TwoPeaks(10000000, 12201600)) => LinkedAsAdducts(db["adduct_pairs"].rows)

(***************************************************************************)
(* C9 amended: for the flat peak list A (m/z 100.0000), B (m/z 122.0160),   *)
(* that library and ppm = 5, annotate_adducts persists no row (the neutral  *)
(* masses 98.99272 and 99.0262 are 338 ppm apart); with B at m/z 121.98252  *)
(* (= 100.0000 - 1.00728 + 22.9898) it persists exactly one row, linking A  *)
(* and B with labels [M+H]+ / [M+Na]+ and ppm_error 0.0.                    *)
(***************************************************************************)
C9_ExampleNotLinked ==
    /\ (AdductsRun /\ TwoPeaks(10000000, 12201600)) => db["adduct_pairs"].rows = <<>>
    /\ (AdductsRun /\ TwoPeaks(10000000, 12198252)) =>
           db["adduct_pairs"].rows
               = <<[peak_id_a |-> peaklist[1].name, peak_id_b |-> peaklist[2].name,
                    label_a |-> "[M+H]+", label_b |-> "[M+Na]+", ppm_error |-> 0]>>

C9_Witness ==
    /\ AdductsRun
    /\ TwoPeaks(10000000, 12201600)
    /\ db["adduct_pairs"].present
    /\ db["adduct_pairs"].rows = <<>>

(***************************************************************************)
(* C10 as stated: for every isotope match whose library abundances are      *)
(* nonzero, annotate_isotopes (flat-list and graph mode) never raises and   *)
(* stores atoms computed from each peak's intensity times the abundance of  *)
(* that peak's own label, the larger-abundance side divided by the          *)
(* smaller-abundance side.                                                 *)
(***************************************************************************)
IsotopesRun == ret.op = "annotate_isotopes"

AbundanceOf(label) == Abundance(lib.isotopes.entries, label)

IntensityOf(peak_id) == PeakOf(peaklist, peak_id).intensity

IsotopeMatches ==
    Assignments(arg.source, peaklist, edges, arg.ppm, prep_lib(lib.isotopes).value)

CrossProductAtoms(r) ==
    LET x == AbundanceOf(r.label_b) * IntensityOf(r.peak_id_a)
        y == AbundanceOf(r.label_a) * IntensityOf(r.peak_id_b)
    IN  IF x = 0 \/ y = 0 THEN Null
        ELSE IF AbundanceOf(r.label_a) < AbundanceOf(r.label_b)
        THEN Some([num |-> x \div Gcd(x, y), den |-> y \div Gcd(x, y)])
        ELSE Some([num |-> y \div Gcd(x, y), den |-> x \div Gcd(x, y)])

ZeroIntensityMatch ==
    \E k \in 1 .. Len(IsotopeMatches) :
        IntensityOf(IsotopeMatches[k].peak_id_a) = 0 \/ IntensityOf(IsotopeMatches[k].peak_id_b) = 0

C6_OneRowPerPeak ==
    (ret.op = "summary" /\ ret.single_row /\ ret.tables # {}) =>
        /\ ret.raised = "none"
        /\ Len(ret.out) = Len(peaklist)
        /\ \A k \in 1 .. Len(peaklist) :
               Cardinality({j \in 1 .. Len(ret.out) : ret.out[j].name = peaklist[k].name}) = 1

(***************************************************************************)
(* C7: summary with single_row = False returns exactly one row per distinct *)
(* (peak, annotation) combination: no two rows of the multi-row report are  *)
(* identical, including for peaks that carry several relationship labels.   *)
(***************************************************************************)
C7_NoIdenticalRows ==
    (ret.op = "summary" /\ ~ret.single_row /\ ret.raised = "none") =>
        \A i \in 1 .. Len(ret.out), j \in 1 .. Len(ret.out) :
            i < j => ret.out[i] # ret.out[j]

(***************************************************************************)
(* SpecRef: the reference-match orchestrators on bounded peak lists and     *)
(* bounded stores.  Peak names may repeat (nothing makes them unique); the  *)
(* formula store is keyed by (composition, exact_mass), so one formula may  *)
(* be stored with two masses; compound ids are distinct.                    *)
(***************************************************************************)
MaxRefPeaks == 2
MaxRefEntries == 2

\* [M+H]+ and [M+Na]+ of 180.06339, and a peak below the floor
RefPeakMz == {18107067, 20305261, 150000}

RefPeakLists ==
    UNION {{[k \in 1 .. n |-> [name |-> PeakNames[c[k][1]], mz |-> c[k][2], intensity |-> 1000]] :
                c \in [1 .. n -> (1 .. MaxRefPeaks) \X RefPeakMz]} : n \in 0 .. MaxRefPeaks}

RefEntries(n) ==
    {c \in [1 .. n -> (1 .. 2) \X {18006339, 18006340}] :
        \A i \in 1 .. n, j \in 1 .. n : i # j => c[i] # c[j]}

RefStores ==
    UNION {{[k \in 1 .. n |-> [compound_id |-> RefIds[k], exact_mass |-> c[k][2],
                               molecular_formula |-> RefFormulas[c[k][1]], rules |-> (c[k][1] = 1)]] :
                c \in RefEntries(n)} : n \in 0 .. MaxRefEntries}

RefAdducts ==
    [shape |-> "odict",
     entries |-> <<[label |-> "[M+H]+", mass |-> 100728, charge |-> 1],
                   [label |-> "[M+Na]+", mass |-> 2298922, charge |-> 1]>>]

InitRef ==
    /\ edges = <<>>
    /\ db = EmptyDb
    /\ ret = NoRet
    /\ arg = [ppm |-> 5]
    /\ lib = RefAdducts
    /\ peaklist \in RefPeakLists
    /\ refs \in RefStores

\* annotate_molecular_formulae(peaklist, lib_adducts, ppm, db_out, db_in, rules)
AnnotateMolecularFormulae ==
    \E rules \in BOOLEAN :
        LET ms == reference_matches("molecular_formulae", peaklist, lib.entries, arg.ppm, refs, rules)
            ins == InsertAll(<<>>, ms, MolecularFormulaeKey)
        IN  /\ db' = [db EXCEPT !["molecular_formulae"] = Persisted(ins)]
            /\ ret' = [op |-> "annotate_molecular_formulae", rules |-> rules, raised |-> ins.raised]
            /\ UNCHANGED <<peaklist, edges, lib, refs, arg>>

\* annotate_compounds(peaklist, lib_adducts, ppm, db_out, db_name = "hmdb", db_in)
AnnotateCompounds ==
    LET ms == reference_matches("compounds", peaklist, lib.entries, arg.ppm, refs, FALSE)
        ins == InsertAll(<<>>, ms, CompoundsKey)
    IN  /\ db' = [db EXCEPT !["compounds_hmdb"] = Persisted(ins)]
        /\ ret' = [op |-> "annotate_compounds", rules |-> FALSE, raised |-> ins.raised]
        /\ UNCHANGED <<peaklist, edges, lib, refs, arg>>

\* annotate_drug_products(peaklist, db_out, list_smiles, lib_adducts, ppm, ...)
AnnotateDrugProducts ==
    LET ms == reference_matches("drug_products", peaklist, lib.entries, arg.ppm, refs, FALSE)
        ins == InsertAll(<<>>, ms, DrugProductsKey)
    IN  /\ db' = [db EXCEPT !["drug_products"] = Persisted(ins)]
        /\ ret' = [op |-> "annotate_drug_products", rules |-> FALSE, raised |-> ins.raised]
        /\ UNCHANGED <<peaklist, edges, lib, refs, arg>>

NextRef == AnnotateMolecularFormulae \/ AnnotateCompounds \/ AnnotateDrugProducts

SpecRef == InitRef /\ [][NextRef]_vars

(***************************************************************************)
(* C5: in the reference-match orchestrators, persisting a match whose       *)
(* composite key (peak id, adduct label, formula or compound identity) is   *)
(* already in the table is ignored: the first stored record is kept, no     *)
(* error is raised, and the remaining matches of the run are persisted.     *)
(***************************************************************************)
ReferenceRun ==
    ret.op \in {"annotate_molecular_formulae", "annotate_compounds", "annotate_drug_products"}

RunKind ==
    IF ret.op = "annotate_molecular_formulae" THEN "molecular_formulae"
    ELSE IF ret.op = "annotate_compounds" THEN "compounds" ELSE "drug_products"

RunTable ==
    IF ret.op = "annotate_molecular_formulae" THEN db["molecular_formulae"]
    ELSE IF ret.op = "annotate_compounds" THEN db["compounds_hmdb"] ELSE db["drug_products"]

RunKey ==
    IF ret.op = "annotate_molecular_formulae" THEN {"id", "adduct", "molecular_formula"}
    ELSE {"id", "adduct", "compound_id"}

RECURSIVE InsertOrIgnoreAll(_, _, _)
InsertOrIgnoreAll(rows, rs, key) ==
    IF rs = <<>> THEN rows
    ELSE InsertOrIgnoreAll(IF HasKey(rows, Head(rs), key) THEN rows ELSE Append(rows, Head(rs)),
                           Tail(rs), key)

C5_DuplicateIgnored ==
    ReferenceRun =>
        /\ ret.raised = "none"
        /\ RunTable.rows
               = InsertOrIgnoreAll(<<>>, reference_matches(RunKind, peaklist, lib.entries, arg.ppm,
                                                          refs, ret.rules), RunKey)

(***************************************************************************)
(* C11: when, for an isotope match, either abundance-weighted intensity     *)
(* product is exactly zero, annotate_isotopes persists the record with      *)
(* atoms = null and goes on to persist the remaining matches, without       *)
(* raising, in flat-list mode and in graph mode alike.                      *)
(***************************************************************************)
ZeroProduct(asg) ==
    \/ AbundanceOf(asg.label_a) * IntensityOf(asg.peak_id_b) = 0
    \/ AbundanceOf(asg.label_b) * IntensityOf(asg.peak_id_a) = 0

C11_NullAtomsPersisted ==
    (IsotopesRun /\ \E k \in 1 .. Len(IsotopeMatches) : ZeroProduct(IsotopeMatches[k])) =>
        /\ ret.raised = "none"
        /\ Len(db["isotopes"].rows) = Len(IsotopeMatches)
        /\ \A k \in 1 .. Len(IsotopeMatches) :
               /\ db["isotopes"].rows[k].peak_id_a = IsotopeMatches[k].peak_id_a
               /\ db["isotopes"].rows[k].peak_id_b = IsotopeMatches[k].peak_id_b
               /\ ZeroProduct(IsotopeMatches[k]) => db["isotopes"].rows[k].atoms = Null

(***************************************************************************)
(* SpecMerge: annotate_adducts and annotate_multiple_charged_ions called    *)
(* any number of times on one store, each call with a library of its own    *)
(* and with add set or not.  lib is the library of the last call.           *)
(***************************************************************************)
\* m/z 100 as [M+H]+, its [M+Na]+ and [M+K]+ partners, its [M+2H]2+ partner
MergeMz == {10000000, 12198252, 13795588, 5050364}

NoLibrary == [shape |-> "odict", entries |-> <<>>]

\* a plain (unordered) mapping: neither shape _prep_lib accepts
PlainMapping == [shape |-> "dict", entries |-> <<>>]

MergeAdductLibs ==
    {[shape |-> "odict",
      entries |-> <<[label |-> "[M+H]+", mass |-> 100728, charge |-> 1],
                    [label |-> "[M+Na]+", mass |-> 2298980, charge |-> 1]>>],
     [shape |-> "odict",
      entries |-> <<[label |-> "[M+H]+", mass |-> 100728, charge |-> 1],
                    [label |-> "[M+K]+", mass |-> 3896316, charge |-> 1]>>],
     PlainMapping}

MergeChargedLibs ==
    {[shape |-> "odict",
      entries |-> <<[label |-> "[M+2H]2+", mass |-> 100728, charge |-> 2],
                    [label |-> "[M+H]+", mass |-> 100728, charge |-> 1]>>],
     [shape |-> "odict",
      entries |-> <<[label |-> "[M+H+Na]2+", mass |-> 1199854, charge |-> 2],
                    [label |-> "[M+H]+", mass |-> 100728, charge |-> 1]>>],
     PlainMapping}

\* peak lists in any order, no m/z twice
MergePeakLists ==
    {pl \in PeakLists(MergeMz, {1000}) :
        \A i \in 1 .. Len(pl), j \in 1 .. Len(pl) : i # j => pl[i].mz # pl[j].mz}

InitMerge ==
    /\ refs = <<>>
    /\ db = EmptyDb
    /\ ret = NoRet
    /\ lib = NoLibrary
    /\ peaklist \in MergePeakLists
    /\ arg \in [ppm : {5}, source : Sources]
    /\ edges \in IF arg.source = "graph"
                 THEN {ForwardEdges(Len(peaklist)), BackwardEdges(Len(peaklist))}
                 ELSE {<<>>}

CallAnnotateAdducts ==
    \E l \in MergeAdductLibs, add \in BOOLEAN :
        LET r == annotate_adducts(db, arg.source, peaklist, edges, arg.ppm, l, add)
        IN  /\ db' = r.db
            /\ lib' = l
            /\ ret' = [op |-> "annotate_adducts", add |-> add, raised |-> r.raised]
            /\ UNCHANGED <<peaklist, edges, refs, arg>>

CallAnnotateMultipleChargedIons ==
    \E l \in MergeChargedLibs, add \in BOOLEAN :
        LET r == annotate_multiple_charged_ions(db, arg.source, peaklist, edges, arg.ppm, l, add)
        IN  /\ db' = r.db
            /\ lib' = l
            /\ ret' = [op |-> "annotate_multiple_charged_ions", add |-> add, raised |-> r.raised]
            /\ UNCHANGED <<peaklist, edges, refs, arg>>

NextMerge == CallAnnotateAdducts \/ CallAnnotateMultipleChargedIons

SpecMerge == InitMerge /\ [][NextMerge]_vars

(***************************************************************************)
(* C12: annotate_adducts and annotate_multiple_charged_ions called with     *)
(* add = True on a store that already holds their table merge into it:      *)
(* every previously stored record whose key is not matched again is still   *)
(* present and unchanged after the call; called with add = False, no record *)
(* from before the call remains (the table holds the records of this call   *)
(* alone).                                                                  *)
(***************************************************************************)
MergeTable(op) == IF op = "annotate_adducts" THEN "adduct_pairs" ELSE "multiple_charged_ions"

MergeKey(op) == IF op = "annotate_adducts" THEN RelationKey ELSE MultipleChargedIonsKey

\* the matches of a call with the library l, none when the call raises before matching
CallMatches(op, l) ==
    IF prep_lib(l).raised # "none" \/ (op # "annotate_adducts" /\ arg.source = "graph" /\ peaklist = <<>>)
    THEN <<>>
    ELSE Assignments(arg.source, peaklist, edges, arg.ppm, prep_lib(l).value)

\* r has the key of one of the matches ms
MatchedAgain(r, ms, key) == \E k \in 1 .. Len(ms) : SameKey(ms[k], r, key)

StoredAs(op, asg) == IF op = "annotate_adducts" THEN AdductRow(asg) ELSE asg

C12_AddMerges ==
    [][\A op \in {"annotate_adducts", "annotate_multiple_charged_ions"} :
          (ret'.op = op /\ db[MergeTable(op)].present) =>
              \A old \in {db[MergeTable(op)].rows}, new \in {db'[MergeTable(op)].rows},
                 ms \in {CallMatches(op, lib')} :
                  IF ret'.add
                  THEN \A k \in 1 .. Len(old) :
                          ~MatchedAgain(old[k], ms, MergeKey(op))
                              => \E j \in 1 .. Len(new) : new[j] = old[k]
                  ELSE new = InsertOrReplaceAll(<<>>, [k \in 1 .. Len(ms) |-> StoredAs(op, ms[k])],
                                                MergeKey(op))]_vars

\* after a merging call the table holds a record the call matched and one it did not
C12_Witness ==
    LET rows == db[MergeTable(ret.op)].rows
        ms == CallMatches(ret.op, lib)
    IN  /\ ret.op \in {"annotate_adducts", "annotate_multiple_charged_ions"}
        /\ ret.add
        /\ ret.raised = "none"
        /\ \E k \in 1 .. Len(rows) : MatchedAgain(rows[k], ms, MergeKey(ret.op))
        /\ \E k \in 1 .. Len(rows) : ~MatchedAgain(rows[k], ms, MergeKey(ret.op))

(***************************************************************************)
(* SpecSummary: annotate_adducts, annotate_isotopes and summary on flat     *)
(* peak lists of m/z 100 (intensity 1000 or 0), its [M+Na]+ partner and its *)
(* (13C) partner, with one adduct library.                                  *)
(***************************************************************************)
SummaryPeaks == {<<10000000, 1000>>, <<10000000, 0>>, <<12198252, 1000>>, <<10100335, 30>>}

InitSummary ==
    /\ Init
    /\ arg.source = "list"
    /\ lib.adducts.entries[1].label = "[M+H]+"
    /\ \A k \in 1 .. Len(peaklist) : <<peaklist[k].mz, peaklist[k].intensity>> \in SummaryPeaks

SpecSummary == InitSummary /\ [][Next]_vars

(***************************************************************************)
(* C13: summary raises ValueError whenever the store holds neither a        *)
(* relationship table (adduct_pairs, isotopes, multiple_charged_ions,       *)
(* oligomers) nor a reference-match table (molecular_formulae,              *)
(* compounds_<source>), and in that case returns no report.                 *)
(***************************************************************************)
SummaryRun == ret.op = "summary"

\* ret.tables: the relationship tables the store held when summary was called; a
\* reference-match table is never dropped, so none now means none then
NothingToSummarize ==
    /\ ret.tables = {}
    /\ ~flag_mf(db)
    /\ ~flag_cpd(db)

C13_NothingToSummarize ==
    (SummaryRun /\ NothingToSummarize) => (ret.raised = "ValueError" /\ ret.out = <<>>)

C13_Witness ==
    /\ SummaryRun
    /\ NothingToSummarize
    /\ ret.raised = "ValueError"
    /\ Len(peaklist) > 0
    /\ db["peaklist"].present

(***************************************************************************)
(* C14: for every subset of the persisted relationship and reference-match  *)
(* tables that contains at least one table (isotopes alone included),       *)
(* summary completes without error and produces the unified table, keyed by *)
(* peak identifier, that contains every peak of the peak list.              *)
(***************************************************************************)
C14_SummaryCompletes ==
    (SummaryRun /\ ret.tables # {}) =>
        /\ ret.raised = "none"
        /\ db["summary"].present
        /\ \A k \in 1 .. Len(peaklist) :
               \E j \in 1 .. Len(db["summary"].rows) : db["summary"].rows[j].name = peaklist[k].name

(***************************************************************************)
(* C15: when an operation fails with a configuration error (here: a         *)
(* malformed library in annotate_adducts or annotate_multiple_charged_ions) *)
(* the destination store is left exactly as it was before the call: no      *)
(* table has been dropped, created or written when the error is raised.     *)
(***************************************************************************)
C15_ConfigErrorLeavesStore ==
    [][ret'.raised = "ValueError" => db' = db]_vars

(***************************************************************************)
(* C16: _prep_lib fails with a format error (ValueError) for every input    *)
(* that is neither an ordered label mapping nor a non-empty list of paired  *)
(* entries carrying mass_difference: a list of ordered entries without      *)
(* mass_difference, an empty list, a plain mapping and any other type.      *)
(***************************************************************************)
EitherShape(l) ==
    \/ l.shape = "odict"
    \/ /\ l.shape = "list"
       /\ l.entries # <<>>
       /\ \A k \in 1 .. Len(l.entries) : l.entries[k].kind = "diff"

C16_FormatError ==
    (ret.op = "_prep_lib" /\ ~EitherShape(lib)) => ret.out.raised = "ValueError"

(***************************************************************************)
(* SpecNum: calculate_mz_tolerance and calculate_ppm_error called on        *)
(* bounded arguments: masses around zero and at m/z 100, a theoretical mass *)
(* within NumSpan units of the mass.  Float arithmetic is taken as exact.   *)
(***************************************************************************)
NumSpan == 3

NumMass == ((0 - NumSpan) .. NumSpan) \cup {10000000}

InitNum ==
    /\ peaklist = <<>>
    /\ edges = <<>>
    /\ refs = <<>>
    /\ lib = <<>>
    /\ db = EmptyDb
    /\ ret = NoRet
    /\ arg \in {[mass |-> m, theo_mass |-> m + k, ppm |-> p] :
                    m \in NumMass, k \in (0 - NumSpan) .. NumSpan, p \in TolPpm}

CallCalculateMzTolerance ==
    /\ ret' = [op |-> "calculate_mz_tolerance", out |-> calculate_mz_tolerance(arg.mass, arg.ppm)]
    /\ UNCHANGED <<peaklist, edges, lib, refs, arg, db>>

\* theo_mass * 0.000001 is 0.0 for theo_mass = 0, and the division raises
CallCalculatePpmError ==
    /\ ret' = [op |-> "calculate_ppm_error",
               out |-> IF arg.theo_mass = 0
                       THEN [raised |-> "ZeroDivisionError"]
                       ELSE [raised |-> "none",
                             value |-> calculate_ppm_error(arg.mass, arg.theo_mass)]]
    /\ UNCHANGED <<peaklist, edges, lib, refs, arg, db>>

NextNum == CallCalculateMzTolerance \/ CallCalculatePpmError

SpecNum == InitNum /\ [][NextNum]_vars

(***************************************************************************)
(* C17: for all masses m > 0 and ppm p >= 0, calculate_mz_tolerance(m, p)   *)
(* = (lo, hi) satisfies lo <= m <= hi, and the width hi - lo is linear in   *)
(* p: hi - lo = 2 * m * p * 1e-6, so doubling p doubles the width and       *)
(* p = 0 gives lo = hi = m.                                                 *)
(***************************************************************************)
ToleranceRun == ret.op = "calculate_mz_tolerance" /\ arg.mass > 0

\* hi - lo of a window, in units of 1 / PpmDen
Width(w) == (w[2][1] - w[1][1]) * PpmDen + (w[2][2] - w[1][2])

C17_WindowAroundMass ==
    ToleranceRun =>
        LET lo == ret.out[1]
            hi == ret.out[2]
            m == <<arg.mass, 0>>
        IN  /\ FxLeq(lo, m) /\ FxLeq(m, hi)
            /\ Width(ret.out) = 2 * arg.mass * arg.ppm
            /\ Width(calculate_mz_tolerance(arg.mass, 2 * arg.ppm)) = 2 * Width(ret.out)
            /\ arg.ppm = 0 => (lo = m /\ hi = m)

C17_Witness ==
    /\ ToleranceRun
    /\ arg.ppm > 0
    /\ FxLess(ret.out[1], <<arg.mass, 0>>)
    /\ FxLess(<<arg.mass, 0>>, ret.out[2])
    /\ Width(ret.out) = 2 * arg.mass * arg.ppm

(***************************************************************************)
(* C18 as stated: calculate_ppm_error(m, m) = 0 for all m.                  *)
(***************************************************************************)
SameMassRun == ret.op = "calculate_ppm_error" /\ arg.mass = arg.theo_mass

C18_ZeroForAll ==
    SameMassRun => (ret.out.raised = "none" /\ ret.out.value.num = 0)

(***************************************************************************)
(* C18 amended: calculate_ppm_error(m, m) = 0 for all m other than 0; for   *)
(* m = 0 the call raises ZeroDivisionError.                                 *)
(***************************************************************************)
C18_ZeroForNonZero ==
    SameMassRun =>
        IF arg.mass = 0 THEN ret.out.raised = "ZeroDivisionError"
        ELSE ret.out.raised = "none" /\ ret.out.value = [num |-> 0, den |-> 1]

C18_Witness ==
    /\ SameMassRun
    /\ arg.mass > 0
    /\ ret.out.raised = "none"
    /\ ret.out.value.num = 0


(***************************************************************************)
(* annotate_molecular_formulae against the remote service, lines 613-672:  *)
(* the call blocks in requests.get at the availability probe (line 620)    *)
(* and at every range query (line 646). Neither call passes timeout=, and  *)
(* requests then waits for the answer without limit: the only ways out of  *)
(* a pending request are the service's answer and a connection failure     *)
(* reported by the operating system. `refs` holds the service's records.   *)
(***************************************************************************)
RemoteOp == "annotate_molecular_formulae_remote"

\* lines 626-672 from the adduct `ka` of the peak `i` up to the next request, or to the end
\* of the loop: the adducts under the floor are skipped (line 638), the peak's values are
\* inserted after its last adduct (line 670) and the rows are committed once (line 672)
RECURSIVE RunToRequest(_, _, _, _, _, _)
RunToRequest(pl, adducts, i, ka, values, rows) ==
    IF i > Len(pl) THEN [at |-> "returned", i |-> i, ka |-> ka, values |-> <<>>, rows |-> rows, raised |-> "none"]
    ELSE IF ka > Len(adducts)
    THEN LET ins == InsertAll(rows, values, MolecularFormulaeKey)
         IN  IF ins.raised # "none"
             THEN [at |-> "raised", i |-> i, ka |-> ka, values |-> <<>>, rows |-> <<>>, raised |-> ins.raised]
             ELSE RunToRequest(pl, adducts, i + 1, 1, <<>>, ins.rows)
    ELSE IF AboveFloor(pl[i].mz, adducts[ka].mass)
    THEN [at |-> "query", i |-> i, ka |-> ka, values |-> values, rows |-> rows, raised |-> "none"]
    ELSE RunToRequest(pl, adducts, i, ka + 1, values, rows)

\* the call's position written to `ret`, and the committed table
Position(rules, p) ==
    [op |-> RemoteOp, rules |-> rules, at |-> p.at, i |-> p.i, ka |-> p.ka,
     values |-> p.values, rows |-> p.rows, raised |-> p.raised]

Failed(rules, exc) ==
    [op |-> RemoteOp, rules |-> rules, at |-> "raised", i |-> 0, ka |-> 0,
     values |-> <<>>, rows |-> <<>>, raised |-> exc]

Pending == ret.op = RemoteOp /\ ret.at \in {"probe", "query"}

Ended == ret.op = RemoteOp /\ ret.at \in {"returned", "raised"}

\* lines 583-620: the table is recreated and the availability probe is sent
CallAnnotateMolecularFormulaeRemote ==
    /\ ret = NoRet
    /\ \E rules \in BOOLEAN :
        ret' = [op |-> RemoteOp, rules |-> rules, at |-> "probe", i |-> 0, ka |-> 0,
                values |-> <<>>, rows |-> <<>>, raised |-> "none"]
    /\ db' = [db EXCEPT !["molecular_formulae"] = NewTable]
    /\ UNCHANGED <<peaklist, edges, lib, refs, arg>>

\* lines 620-621: the probe's answer arrives; raise_for_status raises on an error status
ProbeAnswered ==
    /\ ret.op = RemoteOp /\ ret.at = "probe"
    /\ \E ok \in BOOLEAN :
        LET p == RunToRequest(peaklist, lib.entries, 1, 1, <<>>, <<>>)
        IN  /\ ret' = IF ok THEN Position(ret.rules, p) ELSE Failed(ret.rules, "HTTPError")
            /\ db' = IF ok /\ p.at = "returned"
                     THEN [db EXCEPT !["molecular_formulae"] = [present |-> TRUE, rows |-> p.rows]]
                     ELSE db
    /\ UNCHANGED <<peaklist, edges, lib, refs, arg>>

\* lines 646-666: a range query's answer arrives; its records are completed and collected,
\* an answer without a JSON body raises at line 647
QueryAnswered ==
    /\ ret.op = RemoteOp /\ ret.at = "query"
    /\ \E ok \in BOOLEAN :
        LET peak == peaklist[ret.i]
            adduct == lib.entries[ret.ka]
            records == Lookup("molecular_formulae", refs, peak, adduct, arg.ppm, ret.rules)
            got == [k \in 1 .. Len(records) |-> ReferenceRow("molecular_formulae", peak, adduct, records[k])]
            p == RunToRequest(peaklist, lib.entries, ret.i, ret.ka + 1, ret.values \o got, ret.rows)
        IN  /\ ret' = IF ok THEN Position(ret.rules, p) ELSE Failed(ret.rules, "JSONDecodeError")
            /\ db' = IF ok /\ p.at = "returned"
                     THEN [db EXCEPT !["molecular_formulae"] = [present |-> TRUE, rows |-> p.rows]]
                     ELSE db
    /\ UNCHANGED <<peaklist, edges, lib, refs, arg>>

\* lines 620, 646: the operating system reports the connection as failed
ConnectionFails ==
    /\ Pending
    /\ ret' = Failed(ret.rules, "ConnectionError")
    /\ UNCHANGED <<peaklist, edges, lib, refs, arg, db>>

NextRemote ==
    \/ CallAnnotateMolecularFormulaeRemote
    \/ ProbeAnswered
    \/ QueryAnswered
    \/ ConnectionFails

\* the call itself always starts; nothing makes the service answer or the connection fail
SpecRemote == InitRef /\ [][NextRemote]_vars /\ WF_vars(CallAnnotateMolecularFormulaeRemote)

\* C19: annotate_molecular_formulae used with the remote service never blocks
\* indefinitely: a pending request (the availability probe or a range query) is always
\* followed by the end of the call, by a return or by a raised failure
C19_PendingRequestEnds == Pending ~> Ended


(***************************************************************************)
(* SpecFlat: _annotate_pairs_from_peaklist on a peak list with distinct    *)
(* names and the comparison pairs _prep_lib returns for a library with     *)
(* distinct label pairs.  At 20 ppm the peak pair (100, 101.002) lies      *)
(* within both isotope differences, 1.00335 and 1.00088.                   *)
(***************************************************************************)
FlatMz == {10000000, 10100335, 10100200, 12198252}

FlatPpm == {5, 20}

FlatLibs ==
    {IsotopeLib,
     [shape |-> "list", entries |-> <<IsotopeLib.entries[2], IsotopeLib.entries[1]>>],
     [shape |-> "odict",
      entries |-> <<[label |-> "[M+H]+", mass |-> 100728, charge |-> 1],
                    [label |-> "[M+Na]+", mass |-> 2298980, charge |-> 1],
                    [label |-> "[M+K]+", mass |-> 3896316, charge |-> 1]>>]}

InitFlat ==
    /\ refs = <<>>
    /\ edges = <<>>
    /\ db = EmptyDb
    /\ ret = NoRet
    /\ peaklist \in PeakLists(FlatMz, {1000})
    /\ arg \in [ppm : FlatPpm]
    /\ lib \in FlatLibs

\* list(_annotate_pairs_from_peaklist(peaklist, ppm, _prep_lib(lib)))
CallAnnotatePairsFromPeaklist ==
    /\ ret' = [op |-> "_annotate_pairs_from_peaklist",
               value |-> annotate_pairs_from_peaklist(peaklist, arg.ppm, prep_lib(lib).value)]
    /\ UNCHANGED <<peaklist, edges, lib, refs, arg, db>>

NextFlat == CallAnnotatePairsFromPeaklist

SpecFlat == InitFlat /\ [][NextFlat]_vars

FlatRun == ret.op = "_annotate_pairs_from_peaklist"

\* the records of `out` for the peaks i and j and the comparison pair lp
RecordsOf(out, i, j, lp) ==
    {p \in DOMAIN out : /\ out[p].peak_id_a = peaklist[i].name
                        /\ out[p].peak_id_b = peaklist[j].name
                        /\ out[p].label_a = lp.label_a
                        /\ out[p].label_b = lp.label_b}

\* the place of a record in the order (i, j, comparison pair)
Visit(pairs, r) ==
    CHOOSE v \in (1 .. Len(peaklist)) \X (1 .. Len(peaklist)) \X (1 .. Len(pairs)) :
        /\ peaklist[v[1]].name = r.peak_id_a
        /\ peaklist[v[2]].name = r.peak_id_b
        /\ pairs[v[3]].label_a = r.label_a
        /\ pairs[v[3]].label_b = r.label_b

Earlier(v, w) ==
    \/ v[1] < w[1]
    \/ v[1] = w[1] /\ v[2] < w[2]
    \/ v[1] = w[1] /\ v[2] = w[2] /\ v[3] < w[3]

\* C20: flat-list matching yields exactly one record for every index pair i < j and every
\* comparison pair for which the predicate holds, none for any other combination, whether
\* or not an earlier comparison pair matched the same peak pair, and the records come in
\* the order of the index pairs and, within one index pair, of the comparison pairs
C20_EveryPairEveryComparison ==
    FlatRun =>
        \A out \in {ret.value}, pairs \in {prep_lib(lib).value} :
            /\ \A i \in 1 .. Len(peaklist), j \in 1 .. Len(peaklist), k \in 1 .. Len(pairs) :
                Cardinality(RecordsOf(out, i, j, pairs[k])) =
                    IF i < j /\ check_tolerance(peaklist[i].mz, peaklist[j].mz, pairs[k], arg.ppm).value = 1
                    THEN 1 ELSE 0
            /\ \A p \in DOMAIN out, q \in DOMAIN out :
                p < q => Earlier(Visit(pairs, out[p]), Visit(pairs, out[q]))

\* among three peaks, the second and the third matched by two comparison pairs in a row
C20_Witness ==
    /\ FlatRun
    /\ Len(peaklist) = 3
    /\ \E p \in DOMAIN ret.value :
        /\ p + 1 \in DOMAIN ret.value
        /\ ret.value[p].peak_id_a = ret.value[p + 1].peak_id_a
        /\ ret.value[p].peak_id_b = ret.value[p + 1].peak_id_b
        /\ ret.value[p].label_a # ret.value[p + 1].label_a
        /\ ret.value[p].peak_id_a = peaklist[2].name


(***************************************************************************)
(* C21: annotate_oligomers tests, for each peak, each candidate partner and *)
(* each adduct, every multiplicity d from 1 up to the maximum argument, in  *)
(* flat-list mode and in graph mode: a partner that is d + 1 copies of the  *)
(* de-adducted m/z, re-adducted, within tolerance, is recorded for every    *)
(* such d <= maximum and for no d > maximum.                                *)
(***************************************************************************)
\* the candidate partners of a run: the later rows of a peak list, the heavier successors
\* of a node
OligomerCandidates(source) ==
    IF source = "graph"
    THEN {c \in (1 .. Len(peaklist)) \X (1 .. Len(peaklist)) :
            /\ <<peaklist[c[1]].name, peaklist[c[2]].name>> \in Range(edges)
            /\ peaklist[c[1]].mz < peaklist[c[2]].mz}
    ELSE {c \in (1 .. Len(peaklist)) \X (1 .. Len(peaklist)) : c[1] < c[2]}

\* y is d + 1 copies of x read as the adduct a, within tolerance
IsOligomer(x, y, a, d) == OligomerMatch(OligomerWindows(x, y, a, d, arg.ppm), a)

RecordedOligomer(x, y, a, d) ==
    \E r \in Range(db["oligomers"].rows) :
        /\ r.peak_id_a = x.name /\ r.peak_id_b = y.name
        /\ r.label_a = a.label
        /\ r.ppm_error = ppm_error_rounded((x.mz - a.mass) + (x.mz - a.mass) * d, y.mz - a.mass)

C21_EveryMultiplicityUpToMaximum ==
    (ret.op = "annotate_oligomers" /\ ret.raised = "none") =>
        \A c \in OligomerCandidates(ret.source), a \in Range(lib.entries), d \in 1 .. MaxMaximum + 1 :
            IsOligomer(peaklist[c[1]], peaklist[c[2]], a, d) =>
                (RecordedOligomer(peaklist[c[1]], peaklist[c[2]], a, d) <=> d <= ret.maximum)


(***************************************************************************)
(* annotate_artifacts.  _annotate_artifacts (lines 78-85) takes the m/z     *)
(* column itself as the number of rows, n = peaklist.iloc[:, 1], and        *)
(* range(n) raises TypeError on a column of any length; handed the node     *)
(* view of a graph (line 527), it raises AttributeError at .iloc.  Both     *)
(* happen when the orchestrator asks for the first pair.                    *)
(***************************************************************************)
MaxDiff == 3

\* the thresholds: 0.01 Da, 0.02 Da (the default), ...
Diffs == {1000 * k : k \in 1 .. MaxDiff}

\* the pairs i < j closer than diff, which the loops of lines 80-85 would yield
ClosePairs(pl, diff) ==
    LET ij == combinations(Len(pl), 1, 2)
    IN  SelectSeq(ij, LAMBDA c : Abs(pl[c[1]].mz - pl[c[2]].mz) < diff)

\* _annotate_artifacts(peaklist, diff) consumed by a for loop: [raised, value]
ArtifactPairs(kind, pl, diff) ==
    IF kind = "DataFrame" THEN [raised |-> "TypeError", value |-> <<>>]
    ELSE [raised |-> "AttributeError", value |-> <<>>]

\* annotate_artifacts(source, db_out, diff) on the store d: [db, raised]
annotate_artifacts(d, source, pl, es, diff) ==
    LET cs == weakly_connected_components(pl, es)
        raised == IF source = "graph"
                  THEN IF cs = <<>> THEN "IndexError"
                       ELSE ArtifactPairs("NodeDataView",
                                SelectSeq(pl, LAMBDA p : p.name \in cs[1]), diff).raised
                  ELSE ArtifactPairs("DataFrame", pl, diff).raised
    IN  [db |-> [d EXCEPT !["artifacts"] = NewTable], raised |-> raised]

AnnotateArtifacts ==
    \E diff \in Diffs :
        \E r \in {annotate_artifacts(db, arg.source, peaklist, edges, diff)} :
            /\ db' = r.db
            /\ ret' = [op |-> "annotate_artifacts", diff |-> diff, raised |-> r.raised]
            /\ UNCHANGED <<peaklist, edges, lib, refs, arg>>

NextArtifacts == AnnotateArtifacts

SpecArtifacts == Init /\ [][NextArtifacts]_vars

(***************************************************************************)
(* C22: annotate_artifacts persists one artifacts record for exactly those  *)
(* peak pairs (i < j) whose absolute m/z difference is below the threshold  *)
(* diff, and for no other pair, and completes without error on every flat   *)
(* peak list and every relationship graph.                                  *)
(***************************************************************************)
C22_ArtifactsPersisted ==
    ret.op = "annotate_artifacts" =>
        /\ ret.raised = "none"
        /\ arg.source = "list" =>
            LET close == ClosePairs(peaklist, ret.diff)
            IN  /\ Len(db["artifacts"].rows) = Len(close)
                /\ \A k \in 1 .. Len(close) :
                    \E r \in Range(db["artifacts"].rows) :
                        /\ r.peak_id_a = peaklist[close[k][1]].name
                        /\ r.peak_id_b = peaklist[close[k][2]].name


(***************************************************************************)
(* SpecFloor: the three reference-lookup orchestrators on peaks around the  *)
(* floor.  With [M+H]+ (1.00728) the peak at m/z 1.50728 de-adducts to      *)
(* exactly 0.5 and the one at 1.50729 to 0.50001; the store holds entries   *)
(* of exact mass 0.5, 0.50001 and 180.06339.  Peak names, compound ids and  *)
(* formulae are distinct.                                                   *)
(***************************************************************************)
FloorMz == {150728, 150729, 18107067}

FloorMasses == {50000, 50001, 18006339}

InitFloor ==
    /\ edges = <<>>
    /\ db = EmptyDb
    /\ ret = NoRet
    /\ arg = [ppm |-> 5]
    /\ lib = RefAdducts
    /\ \E n \in 0 .. MaxRefPeaks : \E mz \in [1 .. n -> FloorMz] :
        peaklist = [k \in 1 .. n |-> [name |-> PeakNames[k], mz |-> mz[k], intensity |-> 1000]]
    /\ \E n \in 0 .. MaxRefEntries : \E em \in [1 .. n -> FloorMasses] :
        refs = [k \in 1 .. n |-> [compound_id |-> RefIds[k], exact_mass |-> em[k],
                                  molecular_formula |-> RefFormulas[k], rules |-> TRUE]]

SpecFloor == InitFloor /\ [][NextRef]_vars

\* the orchestrators' names, the kind of their lookup and their table
RefOps == {"annotate_molecular_formulae", "annotate_compounds", "annotate_drug_products"}

RefKind(op) ==
    IF op = "annotate_molecular_formulae" THEN "molecular_formulae"
    ELSE IF op = "annotate_compounds" THEN "compounds"
    ELSE "drug_products"

RefTable(op) ==
    IF op = "annotate_molecular_formulae" THEN "molecular_formulae"
    ELSE IF op = "annotate_compounds" THEN "compounds_hmdb"
    ELSE "drug_products"

RefRun == ret.op \in RefOps /\ ret.raised = "none"

MaxReportPeaks == 2

\* [M+H]+ and [M+Na]+ of 180.06339, and an unrelated peak
ReportMz == {18107067, 20305261, 30000000}

\* 180.06339, and 158.08145 whose [M+Na]+ is the [M+H]+ of the former
ReportMasses == <<18006339, 15808145>>

InitReport ==
    /\ edges = <<>>
    /\ db = EmptyDb
    /\ ret = NoRet
    /\ arg = [ppm |-> 5, source |-> "list"]
    /\ lib = RefAdducts @@ [adducts |-> RefAdducts, isotopes |-> IsotopeLib]
    /\ \E n \in 0 .. MaxReportPeaks :
           \E mz \in [1 .. n -> ReportMz] :
               peaklist = [k \in 1 .. n |-> [name |-> PeakNames[k], mz |-> mz[k], intensity |-> 1000]]
    /\ \E n \in 0 .. Len(ReportMasses) :
           \E c \in [1 .. n -> 1 .. Len(ReportMasses)] :
               refs = [k \in 1 .. n |-> [compound_id |-> RefIds[k], exact_mass |-> ReportMasses[c[k]],
                                         molecular_formula |-> RefFormulas[c[k]], rules |-> TRUE]]

NextReport == AnnotateAdducts \/ AnnotateMolecularFormulae \/ AnnotateCompounds \/ Summary

SpecReport == InitReport /\ [][NextReport]_vars

\* the peak carries the label in the adduct_pairs table
HasLabel(name, label) ==
    \E r \in Range(db["adduct_pairs"].rows) :
        \/ r.peak_id_a = name /\ r.label_a = label
        \/ r.peak_id_b = name /\ r.label_b = label

ReportRun ==
    /\ ret.op = "summary"
    /\ ret.raised = "none"
    /\ flag_amo(db)
    /\ flag_mf(db) \/ flag_cpd(db)

\* C24: in the summary of a store with relationship labels and reference matches, every
\* reference match joined to a peak that has at least one relationship label has an adduct
\* equal to one of that peak's labels (a non-agreeing match is joined only to peaks without
\* any label)
C24_ReferenceAdductAgrees ==
    ReportRun =>
        \A row \in Range(db["summary"].rows) :
            (row.adduct # Null /\ \E a \in Range(lib.entries) : HasLabel(row.name, a.label))
                => HasLabel(row.name, row.adduct[1])


(***************************************************************************)
(* SpecZero: annotate_adducts, annotate_isotopes and                        *)
(* annotate_multiple_charged_ions called with ppm = 0 on peak lists that    *)
(* hold exact adduct, isotope and charge-state partners.                    *)
(***************************************************************************)
MaxZeroPeaks == 2

\* the peaks of MergeMz and the 13C partner of m/z 100
ZeroMz == MergeMz \cup {10100335}

InitZero ==
    /\ refs = <<>>
    /\ db = EmptyDb
    /\ ret = NoRet
    /\ lib = NoLibrary
    /\ \E n \in 0 .. MaxZeroPeaks :
           \E mz \in {f \in [1 .. n -> ZeroMz] : \A i \in 1 .. n, j \in 1 .. n : i # j => f[i] # f[j]} :
               peaklist = [k \in 1 .. n |-> [name |-> PeakNames[k], mz |-> mz[k], intensity |-> 1000]]
    /\ arg \in [ppm : {0}, source : Sources]
    /\ edges \in IF arg.source = "graph"
                 THEN {ForwardEdges(Len(peaklist)), BackwardEdges(Len(peaklist))}
                 ELSE {<<>>}

\* annotate_isotopes(source, db_out, ppm, lib)
CallAnnotateIsotopes ==
    LET lib_pairs == prep_lib(IsotopeLib)
        asgs == Assignments(arg.source, peaklist, edges, arg.ppm, lib_pairs.value)
        rs == [k \in 1 .. Len(asgs) |-> IsotopeRow(asgs[k], IsotopeLib.entries, peaklist)]
        ins == InsertIsotopes(<<>>, rs, arg.source)
    IN  /\ db' = [db EXCEPT !["isotopes"] = [present |-> TRUE, rows |-> ins.rows]]
        /\ lib' = IsotopeLib
        /\ ret' = [op |-> "annotate_isotopes", raised |-> ins.raised]
        /\ UNCHANGED <<peaklist, edges, refs, arg>>

NextZero == CallAnnotateAdducts \/ CallAnnotateIsotopes \/ CallAnnotateMultipleChargedIons

SpecZero == InitZero /\ [][NextZero]_vars

\* the comparison pairs of the library of the last call
LastLibPairs == IF prep_lib(lib).raised = "none" THEN Range(prep_lib(lib).value) ELSE {}

Orders(n) == {f \in [1 .. n -> 1 .. n] : \A i \in 1 .. n, j \in 1 .. n : i # j => f[i] # f[j]}

Reordered(s, f) == [k \in 1 .. Len(s) |-> s[f[k]]]

\* the unordered peak pairs with their unordered label pairs
Links(rows) == {<<{r.peak_id_a, r.peak_id_b}, {r.label_a, r.label_b}>> : r \in Range(rows)}

\* C26: after a flat-list run of annotate_adducts on a new table, the links stored are those
\* that the pair matcher finds for every reordering of the peak rows and of the library labels
C26_OrderIndependent ==
    (ret.op = "annotate_adducts" /\ ret.raised = "none" /\ ~ret.add /\ arg.source = "list") =>
        \A f \in Orders(Len(peaklist)), g \in Orders(Len(lib.adducts.entries)) :
            Links(annotate_pairs_from_peaklist(
                      Reordered(peaklist, f), arg.ppm,
                      prep_lib([lib.adducts EXCEPT !.entries = Reordered(lib.adducts.entries, g)]).value))
                = Links(db["adduct_pairs"].rows)


(***************************************************************************)
(* SpecGraph: annotate_adducts on relationship graphs of several            *)
(* components: the first peaks of GraphPeaks as nodes and any few directed  *)
(* edges between them, in either direction.                                 *)
(***************************************************************************)
MaxGraphPeaks == 4
MaxGraphEdges == 3

\* m/z 100 as [M+H]+ twice, its [M+Na]+ (22.98922) twice, an unrelated peak
GraphPeaks == <<10000000, 10000000, 12198194, 12198194, 13795588>>

\* the directed pairs of n nodes, node by node
DirectedPairs(n) ==
    SelectSeq(Flatten([i \in 1 .. n |-> [j \in 1 .. n |-> <<PeakNames[i], PeakNames[j]>>]]),
              LAMBDA e : e[1] # e[2])

InitGraph ==
    /\ refs = <<>>
    /\ db = EmptyDb
    /\ ret = NoRet
    /\ lib = [adducts |-> RefAdducts, isotopes |-> IsotopeLib]
    /\ arg = [ppm |-> 5, source |-> "graph"]
    /\ \E n \in 0 .. MaxGraphPeaks :
           /\ peaklist = [k \in 1 .. n |-> [name |-> PeakNames[k], mz |-> GraphPeaks[k], intensity |-> 1000]]
           /\ \E chosen \in {s \in SUBSET Range(DirectedPairs(n)) : Cardinality(s) <= MaxGraphEdges} :
                  edges = SelectSeq(DirectedPairs(n), LAMBDA e : e \in chosen)

NextGraph == AnnotateAdducts

SpecGraph == InitGraph /\ [][NextGraph]_vars

\* G.edges() of the graph as supplied
WholeGraphEdges == SubgraphEdges(peaklist, edges, Range(Names(peaklist)))

\* how often the edge e occurs among the edges evaluated
Evaluations(evaluated, e) == Cardinality({k \in 1 .. Len(evaluated) : evaluated[k] = e})

GraphRun == ret.op = "annotate_adducts" /\ ret.raised = "none" /\ ~ret.add

\* C27: in graph mode every directed edge of the supplied graph is evaluated exactly once and
\* no other pair is, and the records of a run on a new table are the records found by going
\* over all edges of the whole graph
C27_ComponentsCoverEdges ==
    /\ \A evaluated \in {GraphEdges(peaklist, edges)} :
           /\ \A e \in Range(edges) : Evaluations(evaluated, e) = 1
           /\ Range(evaluated) \subseteq Range(edges)
    /\ GraphRun =>
           \A whole \in {annotate_pairs_from_graph(peaklist, WholeGraphEdges, arg.ppm,
                                                    prep_lib(lib.adducts).value)} :
               /\ Len(db["adduct_pairs"].rows) = Len(whole)
               /\ Range(db["adduct_pairs"].rows) = {AdductRow(whole[k]) : k \in 1 .. Len(whole)}

\* a run on a graph of two components, visited in another order than the whole graph's edges,
\* has stored a record for each of them
C27_Witness ==
    /\ GraphRun
    /\ Len(weakly_connected_components(peaklist, edges)) = 2
    /\ GraphEdges(peaklist, edges) # WholeGraphEdges
    /\ Len(db["adduct_pairs"].rows) >= 2


(***************************************************************************)
(* C28: a call repeated with add = True.                                    *)
(***************************************************************************)
\* the call that has just ended normally, made once more with add = True
CalledAgain ==
    IF ret.op = "annotate_adducts"
    THEN annotate_adducts(db, arg.source, peaklist, edges, arg.ppm, lib, TRUE)
    ELSE annotate_multiple_charged_ions(db, arg.source, peaklist, edges, arg.ppm, lib, TRUE)

MergeRun ==
    /\ ret.op \in {"annotate_adducts", "annotate_multiple_charged_ions"}
    /\ ret.raised = "none"

\* C28: after annotate_adducts or annotate_multiple_charged_ions has ended normally, the same
\* call made again with add = True (same source, ppm and library) ends normally and leaves
\* the store, its table row for row, as it was
C28_AddIdempotent ==
    MergeRun => \A again \in {CalledAgain} : again.raised = "none" /\ again.db = db

\* the call has stored a record behind the record of an earlier call with another library
C28_Witness ==
    LET rows == db[MergeTable(ret.op)].rows
        ms == CallMatches(ret.op, lib)
    IN  /\ MergeRun
        /\ Len(rows) >= 2
        /\ ~MatchedAgain(rows[1], ms, MergeKey(ret.op))
        /\ MatchedAgain(rows[Len(rows)], ms, MergeKey(ret.op))


(***************************************************************************)
(* SpecWindow: the three reference-lookup orchestrators on a peak at m/z    *)
(* 200.0, whose window at 5 ppm is [199.999, 200.001], and store entries    *)
(* whose [M+H]+ lies on either edge of that window or 0.00001 outside it.   *)
(***************************************************************************)
WindowMz == {20000000, 18107067}

WindowMasses == {19899171, 19899172, 19899372, 19899373, 18006339}

InitWindow ==
    /\ edges = <<>>
    /\ db = EmptyDb
    /\ ret = NoRet
    /\ arg = [ppm |-> 5]
    /\ lib = RefAdducts
    /\ \E n \in 0 .. MaxRefPeaks : \E mz \in [1 .. n -> WindowMz] :
        peaklist = [k \in 1 .. n |-> [name |-> PeakNames[k], mz |-> mz[k], intensity |-> 1000]]
    /\ \E n \in 0 .. MaxRefEntries : \E em \in [1 .. n -> WindowMasses] :
        refs = [k \in 1 .. n |-> [compound_id |-> RefIds[k], exact_mass |-> em[k],
                                  molecular_formula |-> RefFormulas[k], rules |-> TRUE]]

SpecWindow == InitWindow /\ [][NextRef]_vars

MaxEmptyPeaks == 1

ChargedLib ==
    [shape |-> "odict",
     entries |-> <<[label |-> "[M+2H]2+", mass |-> 100728, charge |-> 2],
                   [label |-> "[M+H]+", mass |-> 100728, charge |-> 1]>>]

InitEmpty ==
    /\ refs = <<>>
    /\ db = EmptyDb
    /\ ret = NoRet
    /\ edges = <<>>
    /\ arg \in [ppm : {5}, source : Sources]
    /\ lib = RefAdducts @@ [adducts |-> RefAdducts, isotopes |-> IsotopeLib, charged |-> ChargedLib]
    /\ \E n \in 0 .. MaxEmptyPeaks : \E mz \in [1 .. n -> MergeMz] :
           peaklist = [k \in 1 .. n |-> [name |-> PeakNames[k], mz |-> mz[k], intensity |-> 1000]]

\* annotate_multiple_charged_ions(source, db_out, ppm, lib, add)
AnnotateMultipleChargedIons ==
    \E add \in BOOLEAN :
        LET r == annotate_multiple_charged_ions(db, arg.source, peaklist, edges, arg.ppm,
                                                lib.charged, add)
        IN  /\ db' = r.db
            /\ ret' = [op |-> "annotate_multiple_charged_ions", add |-> add, raised |-> r.raised]
            /\ UNCHANGED <<peaklist, edges, lib, refs, arg>>

NextEmpty ==
    \/ AnnotateAdducts
    \/ AnnotateIsotopes
    \/ AnnotateOligomers
    \/ AnnotateMultipleChargedIons
    \/ AnnotateArtifacts

SpecEmpty == InitEmpty /\ [][NextEmpty]_vars

RelationTable(op) ==
    IF op = "annotate_adducts" THEN "adduct_pairs"
    ELSE IF op = "annotate_isotopes" THEN "isotopes"
    ELSE IF op = "annotate_oligomers" THEN "oligomers"
    ELSE IF op = "annotate_multiple_charged_ions" THEN "multiple_charged_ions"
    ELSE "artifacts"

\* a relationship orchestrator has been called on a source without peaks, to create its table
EmptyRun ==
    /\ peaklist = <<>>
    /\ ret.op \in {"annotate_adducts", "annotate_isotopes", "annotate_oligomers",
                   "annotate_multiple_charged_ions", "annotate_artifacts"}
    /\ ret.op \in {"annotate_adducts", "annotate_multiple_charged_ions"} => ~ret.add

\* C30: on a graph with no nodes or a peak list with no rows every relationship orchestrator
\* ends without an exception and leaves its newly created table empty
C30_EmptySourceEndsNormally ==
    EmptyRun => ret.raised = "none" /\ db[RelationTable(ret.op)] = NewTable

====
